---- MODULE Spec2Model ----
(***************************************************************************)
(* Model of the WebNav green agent (jskoe/greenagent):                     *)
(*   - TaskController.run_evaluation / execute_task / initialize / reset   *)
(*     (webnav/app/controller.py) over BrowserManager (webnav/app/         *)
(*     browser.py),                                                        *)
(*   - WhiteAgentClient.validate_action (webnav/app/white_agent_client.py),*)
(*   - ActionExecutor.execute_action (webnav/app/action_executor.py),      *)
(*   - judge_final_success and its helpers (webnav/app/judge.py).          *)
(*                                                                         *)
(* Python dictionaries are functions whose domain is the set of keys that  *)
(* are present; text is a sequence of characters (tuples of one-character  *)
(* strings), so that substring and pattern search are computed.           *)
(***************************************************************************)
EXTENDS Integers, Sequences, FiniteSets, TLC

VARIABLES
    initialized,        \* TaskController._initialized
    browser_manager,    \* TaskController.browser_manager: "None" or "Manager"
    browser,            \* BrowserManager.browser is set (browser launched)
    active_contexts,    \* BrowserManager._active_contexts
    open_contexts,      \* contexts created in the browser and not yet closed
    handler,            \* the request being served: run_evaluation or execute_task
    pc,                 \* position of the request being served
    max_steps,          \* run_request.limits.max_steps
    white_agents,       \* run_request.white_agents is non-empty
    timed_out,          \* more than limits.timeout_s seconds have passed since start_time
    context,            \* local `context` (0 is None)
    page,               \* local `page` is set
    step_idx,           \* local step_idx
    stopped,            \* local stopped
    stop_reason,        \* local stop_reason
    timeouts,           \* local timeouts
    invalid_actions,    \* local invalid_actions
    executed_actions,   \* local executed_actions
    events,             \* local events
    agent_result,       \* outcome of the call_agent of the current step
    agent_calls,        \* number of call_agent invocations of this run
    observations,       \* number of extract_observation invocations of this run
    executor_calls,     \* actions handed to ActionExecutor.execute_action
    result,             \* value of the pending `return` / exception
    outcome,            \* how the last request ended: a response or raised
    saved_events,       \* artifacts/<run_id>/events.jsonl of the request's run
    saved_log,          \* artifacts/<run_id>/log.txt of the request's run
    call,               \* arguments of a pure function under check
    ret,                \* its return value
    callers,            \* position of each concurrent caller of initialize
    started             \* BrowserManager instances whose browser is running

ctl_vars == <<initialized, browser_manager, browser, active_contexts, open_contexts>>
req_vars == <<max_steps, white_agents, timed_out>>
loop_vars == <<step_idx, stopped, stop_reason, timeouts, invalid_actions,
               executed_actions, events, agent_result, agent_calls, observations,
               executor_calls>>
artifact_vars == <<saved_events, saved_log>>
run_vars == <<handler, pc, req_vars, context, page, loop_vars, result, outcome, artifact_vars>>
pure_vars == <<call, ret>>
init_vars == <<callers, started>>
vars == <<ctl_vars, run_vars, pure_vars, init_vars>>
\* what no step of the loop changes
outside_loop == <<ctl_vars, handler, req_vars, context, page, result, outcome, artifact_vars,
                  pure_vars, init_vars>>

(***************************************************************************)
(* Bounds of the model.                                                    *)
(***************************************************************************)
MaxSteps == 4           \* largest limits.max_steps a request carries
MaxStepsValues == (0 - 1)..MaxSteps

MaxCallers == 2         \* concurrent callers of TaskController.initialize
MaxManagers == 3        \* BrowserManager objects created in one behaviour
Callers == 1..MaxCallers
\* a caller that is not inside initialize
NotCalling == [pc |-> "idle", manager |-> "None"]

None == "None"
NoResult == [kind |-> "none"]
NoCall == [fn |-> "none"]
NoRet == [fn |-> "none"]

(***************************************************************************)
(* Actions (Python dicts) and the agent's possible answers.                *)
(***************************************************************************)
NotADict == [json |-> "not_a_dict"]
IsDict(a) == "json" \notin DOMAIN a
Has(a, k) == k \in DOMAIN a
Get(a, k, default) == IF k \in DOMAIN a THEN a[k] ELSE default

allowed_types == {"click", "type", "select", "scroll", "wait", "stop"}

NoReason == [msg |-> "None"]
MissingField(what, f) == [msg |-> "missing", action |-> what, field |-> f]

\* A validator that checks only the action type.
validate_action_TypeOnly(action) ==
    IF ~IsDict(action) THEN <<FALSE, [msg |-> "not_a_dict"]>>
    ELSE IF Get(action, "type", "") = "" THEN <<FALSE, MissingField("Action", "type")>>
    ELSE IF action.type \notin allowed_types
         THEN <<FALSE, [msg |-> "invalid_type", type |-> action.type]>>
    ELSE <<TRUE, NoReason>>

\* WhiteAgentClient.validate_action: <<is_valid, error_message>>
validate_action(action) ==
    IF ~IsDict(action) THEN <<FALSE, [msg |-> "not_a_dict"]>>
    ELSE LET action_type == Get(action, "type", "") IN
    IF action_type = "" THEN <<FALSE, MissingField("Action", "type")>>
    ELSE IF action_type \notin allowed_types
         THEN <<FALSE, [msg |-> "invalid_type", type |-> action_type]>>
    ELSE IF action_type = "click" THEN
             IF ~Has(action, "selector") THEN <<FALSE, MissingField("Click", "selector")>>
             ELSE <<TRUE, NoReason>>
    ELSE IF action_type = "type" THEN
             IF ~Has(action, "selector") THEN <<FALSE, MissingField("Type", "selector")>>
             ELSE IF ~Has(action, "text") THEN <<FALSE, MissingField("Type", "text")>>
             ELSE <<TRUE, NoReason>>
    ELSE IF action_type = "select" THEN
             IF ~Has(action, "selector") THEN <<FALSE, MissingField("Select", "selector")>>
             ELSE IF ~Has(action, "value") THEN <<FALSE, MissingField("Select", "value")>>
             ELSE <<TRUE, NoReason>>
    ELSE IF action_type = "scroll" THEN
             IF ~Has(action, "delta_y") THEN <<FALSE, MissingField("Scroll", "delta_y")>>
             ELSE <<TRUE, NoReason>>
    ELSE IF action_type = "wait" THEN
             IF ~Has(action, "ms") THEN <<FALSE, MissingField("Wait", "ms")>>
             ELSE <<TRUE, NoReason>>
    ELSE \* stop
             IF ~Has(action, "reason") THEN <<FALSE, MissingField("Stop", "reason")>>
             ELSE <<TRUE, NoReason>>

\* Outcomes of the page operation an action performs.
PageOutcomes == {"ok", "timeout", "error"}

\* An executor that marks the result successful before the page operation.
execute_action_SuccessFirst(action, page_outcome) ==
    LET action_type == Get(action, "type", None) IN
    IF action_type \in {"click", "type", "select", "scroll", "wait"} THEN
        IF page_outcome = "ok" THEN [success |-> TRUE, error |-> NoReason]
        ELSE IF page_outcome = "timeout"
             THEN [success |-> TRUE, error |-> [msg |-> "Timeout executing"]]
        ELSE [success |-> TRUE, error |-> [msg |-> "Error executing"]]
    ELSE IF action_type = "stop"
         THEN [success |-> TRUE, error |-> NoReason, stop_reason |-> Get(action, "reason", "done")]
    ELSE [success |-> FALSE, error |-> [msg |-> "Unknown action type"]]

\* ActionExecutor.execute_action: the result dictionary
execute_action(action, page_outcome) ==
    LET action_type == Get(action, "type", None) IN
    IF action_type = "wait" THEN
        \* asyncio.sleep(ms / 1000.0): fails only when ms is not a number
        IF page_outcome = "error" THEN [success |-> FALSE, error |-> [msg |-> "Error executing"]]
        ELSE [success |-> TRUE, error |-> NoReason]
    ELSE IF action_type \in {"click", "type", "select", "scroll"} THEN
        IF ((action_type = "click" /\ ~Has(action, "selector"))
            \/ (action_type = "type" /\ ~(Has(action, "selector") /\ Has(action, "text")))
            \/ (action_type = "select" /\ ~(Has(action, "selector") /\ Has(action, "value"))))
        THEN [success |-> FALSE, error |-> [msg |-> "Error executing"]]      \* KeyError
        ELSE IF page_outcome = "ok" THEN [success |-> TRUE, error |-> NoReason]
        ELSE IF page_outcome = "timeout"
             THEN [success |-> FALSE, error |-> [msg |-> "Timeout executing"]]
        ELSE [success |-> FALSE, error |-> [msg |-> "Error executing"]]
    ELSE IF action_type = "stop"
         THEN [success |-> TRUE, error |-> NoReason, stop_reason |-> Get(action, "reason", "done")]
    ELSE [success |-> FALSE, error |-> [msg |-> "Unknown action type"]]

\* An event record that does not carry the step it was made for.
create_event_record_StepZero(idx, action, execution_result) ==
    [step_idx |-> 0, action |-> action, execution_result |-> execution_result]

\* logging_utils.create_event_record (timestamp, hash and url are the environment's)
create_event_record(idx, action, execution_result) ==
    [step_idx |-> idx, action |-> action, execution_result |-> execution_result]

\* What the agent may put in the `action` field of its answer.
AgentActions ==
    { NotADict,
      [k \in {} |-> ""],
      [type |-> "click"],
      [type |-> "click", selector |-> "#x"],
      [type |-> "stop"],
      [type |-> "stop", reason |-> "finished"] }

AgentResults ==
    {[kind |-> "timeout"], [kind |-> "error"]}
        \cup {[kind |-> "ok", action |-> a] : a \in AgentActions}
NoAgentResult == [kind |-> "none"]

(***************************************************************************)
(* Responses of run_evaluation.                                            *)
(***************************************************************************)
\* An error response that reports the counters of the loop.
create_error_response_KeepsCounters(error) ==
    [kind |-> "response", success |-> FALSE, error |-> error,
     final_success |-> 0, steps_taken |-> step_idx, timeouts |-> timeouts,
     invalid_actions |-> invalid_actions, trace_match_ratio |-> None]

\* controller._create_error_response
create_error_response(error) ==
    [kind |-> "response", success |-> FALSE, error |-> error,
     final_success |-> 0, steps_taken |-> 0, timeouts |-> 0, invalid_actions |-> 0,
     trace_match_ratio |-> None]

Raised(what) == [kind |-> "raised", error |-> what]

\* events.jsonl: not written, or written with a list of events
NotSaved == [saved |-> FALSE]
Saved(evs) == [saved |-> TRUE, events |-> evs]

\* _create_error_response, lines 446-451: log.txt is overwritten with the
\* error line, unless the write fails (the failure is swallowed)
SaveErrorLog(before) ==
    \E written \in BOOLEAN : saved_log' = IF written THEN "error_line" ELSE before

(***************************************************************************)
(* Initial state: a TaskController just constructed, no request in flight. *)
(***************************************************************************)
InitCtl ==
    /\ initialized = FALSE
    /\ browser_manager = None
    /\ browser = FALSE
    /\ active_contexts = {}
    /\ open_contexts = {}
    /\ callers = [c \in Callers |-> NotCalling]
    /\ started = {}

InitRun ==
    /\ handler = None
    /\ pc = "idle"
    /\ max_steps = 0
    /\ white_agents = FALSE
    /\ timed_out = FALSE
    /\ context = 0
    /\ page = FALSE
    /\ step_idx = 0
    /\ stopped = FALSE
    /\ stop_reason = None
    /\ timeouts = 0
    /\ invalid_actions = 0
    /\ executed_actions = <<>>
    /\ events = <<>>
    /\ agent_result = NoAgentResult
    /\ agent_calls = 0
    /\ observations = 0
    /\ executor_calls = <<>>
    /\ result = NoResult
    /\ outcome = NoResult
    /\ saved_events = NotSaved
    /\ saved_log = "none"

Init == InitCtl /\ InitRun /\ call = NoCall /\ ret = NoRet

Idle == pc = "idle"

(***************************************************************************)
(* TaskController.initialize, for one outcome of the environment: the      *)
(* browser launches and the runs directory is made ("ok"), the launch      *)
(* fails ("start_fail"), or making the runs directory fails ("dir_fail").  *)
(***************************************************************************)
InitOutcomes == {"ok", "start_fail", "dir_fail"}

initialize(o) ==
    /\ browser_manager' = "Manager"
    /\ browser' = (o # "start_fail")
    /\ active_contexts' = {}
    /\ initialized' = (o = "ok")

\* The locals run_evaluation sets before its first try.
ResetLocals ==
    /\ context' = 0
    /\ page' = FALSE
    /\ step_idx' = 0
    /\ stopped' = FALSE
    /\ stop_reason' = None
    /\ timeouts' = 0
    /\ invalid_actions' = 0
    /\ executed_actions' = <<>>
    /\ events' = <<>>
    /\ agent_result' = NoAgentResult
    /\ agent_calls' = 0
    /\ observations' = 0
    /\ executor_calls' = <<>>

(***************************************************************************)
(* run_evaluation, lines 198-221: initialize if needed, set the locals,    *)
(* load the task.                                                          *)
(***************************************************************************)
RunStart ==
    /\ Idle
    /\ \E ms \in MaxStepsValues, wa \in BOOLEAN, load_ok \in BOOLEAN,
          io \in IF initialized THEN {"ok"} ELSE InitOutcomes :
        /\ handler' = "run_evaluation"
        /\ max_steps' = ms
        /\ white_agents' = wa
        /\ timed_out' = FALSE
        /\ ResetLocals
        /\ open_contexts' = open_contexts
        /\ IF ~initialized
           THEN initialize(io)
           ELSE UNCHANGED <<initialized, browser_manager, browser, active_contexts>>
        /\ IF ~initialized /\ io # "ok"
           THEN \* initialize() raised outside every try block
                /\ pc' = "done"
                /\ outcome' = Raised("initialize")
                /\ result' = NoResult
                /\ saved_log' = "none"
           ELSE IF ~load_ok
           THEN /\ pc' = "done"
                /\ outcome' = create_error_response("Failed to load task")
                /\ result' = NoResult
                /\ SaveErrorLog("none")
           ELSE /\ pc' = "create_context"
                /\ outcome' = NoResult
                /\ result' = NoResult
                /\ saved_log' = "none"
        /\ saved_events' = NotSaved
    /\ UNCHANGED <<pure_vars, init_vars>>

(***************************************************************************)
(* Text: sequences of characters.  Python's `x in y`, str.startswith,      *)
(* str.split(' ', 1) and re.search over patterns made of literal           *)
(* characters, the wildcard "." and an unbalanced "(" (an invalid regex).  *)
(***************************************************************************)
IsSubstring(x, y) ==
    \E i \in 0..(Len(y) - Len(x)) : SubSeq(y, i + 1, i + Len(x)) = x

StartsWith(s, c) == Len(s) >= 1 /\ s[1] = c

Contains(s, c) == \E i \in 1..Len(s) : s[i] = c

\* s[1:]
DropFirst(s) == SubSeq(s, 2, Len(s))

\* position of the first c in s, 0 if there is none
FirstIndex(s, c) ==
    IF Contains(s, c) THEN CHOOSE i \in 1..Len(s) : s[i] = c /\ \A j \in 1..(i - 1) : s[j] # c
    ELSE 0

\* s.split(' ', 1): <<head>> or <<head, rest>>
SplitFirstSpace(s) ==
    LET i == FirstIndex(s, " ") IN
    IF i = 0 THEN <<s>> ELSE <<SubSeq(s, 1, i - 1), SubSeq(s, i + 1, Len(s))>>

\* re.compile succeeds
RegexValid(p) == ~Contains(p, "(")

\* the pattern p matches text t exactly at positions i .. i + Len(p) - 1
MatchesAt(p, t, i) ==
    /\ i >= 1
    /\ i + Len(p) - 1 <= Len(t)
    /\ \A j \in 1..Len(p) : p[j] = "." \/ p[j] = t[i + j - 1]

\* bool(re.search(p, t)) for a valid pattern
RegexSearch(p, t) == \E i \in 1..(Len(t) + 1) : MatchesAt(p, t, i)

Quote == "\""
ClassOpen == <<"c", "l", "a", "s", "s", "=", Quote>>
IdOpen == <<"i", "d", "=", Quote>>

\* re.search('class="[^"]*NAME[^"]*"', t) for a valid NAME
ClassPatternSearch(name, t) ==
    \E i \in 1..Len(t), s \in 1..(Len(t) + 1), e \in 1..Len(t) :
        /\ MatchesAt(ClassOpen, t, i)
        /\ s >= i + Len(ClassOpen)
        /\ \A k \in (i + Len(ClassOpen))..(s - 1) : t[k] # Quote
        /\ MatchesAt(name, t, s)
        /\ e >= s + Len(name)
        /\ \A k \in (s + Len(name))..(e - 1) : t[k] # Quote
        /\ t[e] = Quote

(***************************************************************************)
(* judge.py                                                                *)
(***************************************************************************)
\* A selector check that looks at the class part of a compound selector only.
check_css_selector_exists_ClassOnly(css_selector, html_content) ==
    IF StartsWith(css_selector, "#") THEN
        LET parts == SplitFirstSpace(DropFirst(css_selector))
            class_part == IF Len(parts) > 1 THEN parts[2] ELSE <<>>
        IN  IF StartsWith(class_part, ".")
            THEN /\ RegexValid(DropFirst(class_part))
                 /\ ClassPatternSearch(DropFirst(class_part), html_content)
            ELSE IsSubstring(IdOpen \o parts[1] \o <<Quote>>, html_content)
    ELSE IF StartsWith(css_selector, ".") THEN
        /\ RegexValid(DropFirst(css_selector))
        /\ ClassPatternSearch(DropFirst(css_selector), html_content)
    ELSE IsSubstring(css_selector, html_content)

\* judge._check_css_selector_exists (truthiness of what it returns)
check_css_selector_exists(css_selector, html_content) ==
    IF StartsWith(css_selector, "#") THEN
        LET element_id == DropFirst(css_selector) IN
        IF Contains(element_id, ".") THEN
            LET parts == SplitFirstSpace(element_id)
                id == parts[1]
                class_part == IF Len(parts) > 1 THEN parts[2] ELSE <<>>
                id_pattern == IdOpen \o id \o <<Quote>>
            IN  IF StartsWith(class_part, ".") THEN
                    LET class_name == DropFirst(class_part) IN
                    /\ IsSubstring(id_pattern, html_content)
                    /\ RegexValid(class_name)          \* re.error is caught: False
                    /\ ClassPatternSearch(class_name, html_content)
                ELSE IsSubstring(id_pattern, html_content)
        ELSE IsSubstring(IdOpen \o element_id \o <<Quote>>, html_content)
    ELSE IF StartsWith(css_selector, ".") THEN
        LET class_name == DropFirst(css_selector) IN
        /\ RegexValid(class_name)
        /\ ClassPatternSearch(class_name, html_content)
    ELSE IsSubstring(css_selector, html_content)

\* judge._check_regex_match
check_regex_match(pattern, text) ==
    IF RegexValid(pattern) THEN RegexSearch(pattern, text) ELSE FALSE

PyNone == [py |-> "None"]
\* truthiness of an Optional[dict]
Truthy(d) == d # PyNone /\ DOMAIN d # {}

\* A judge that passes as soon as one present key passes.
judge_final_success_AnyKey(task_spec, final_html, final_url) ==
    IF Truthy(task_spec.success_criteria) THEN
        LET criteria == task_spec.success_criteria IN
        \/ ("url_contains" \in DOMAIN criteria
               /\ IsSubstring(criteria["url_contains"], final_url))
        \/ ("text_present" \in DOMAIN criteria
               /\ check_regex_match(criteria["text_present"], final_html))
        \/ ("selector_present" \in DOMAIN criteria
               /\ check_css_selector_exists(criteria["selector_present"], final_html))
    ELSE IF task_spec.expected # PyNone
        THEN check_css_selector_exists(task_spec.expected.css, final_html)
    ELSE FALSE

\* judge.judge_final_success
judge_final_success(task_spec, final_html, final_url) ==
    IF Truthy(task_spec.success_criteria) THEN
        LET criteria == task_spec.success_criteria IN
        IF "url_contains" \in DOMAIN criteria
             /\ ~IsSubstring(criteria["url_contains"], final_url) THEN FALSE
        ELSE IF "text_present" \in DOMAIN criteria
             /\ ~check_regex_match(criteria["text_present"], final_html) THEN FALSE
        ELSE IF "selector_present" \in DOMAIN criteria
             /\ ~check_css_selector_exists(criteria["selector_present"], final_html) THEN FALSE
        ELSE TRUE
    ELSE IF task_spec.expected # PyNone
        THEN check_css_selector_exists(task_spec.expected.css, final_html)
    ELSE FALSE

\* mind2web_loader.load_task_from_run_request: the fields the judge reads
load_task_from_run_request ==
    [expected |-> PyNone, gold_actions |-> PyNone, success_criteria |-> PyNone]

\* an identity for a new context object
FreshContext ==
    CHOOSE i \in 1..(Cardinality(active_contexts \cup open_contexts) + 1) :
        i \notin active_contexts \cup open_contexts

\* the request's context has not been closed: operations on its page can succeed
ContextOpen == context \in open_contexts
\* self.browser_manager.create_context() can succeed only on a manager
CreateOutcomes == IF browser_manager = None THEN {FALSE} ELSE BOOLEAN

(***************************************************************************)
(* run_evaluation, lines 228-229: BrowserManager.create_context.  A        *)
(* failure is caught at line 421 and becomes an error response.            *)
(***************************************************************************)
RunCreateContext ==
    /\ pc = "create_context"
    /\ \E ok \in CreateOutcomes :
        IF ok
        THEN /\ browser' = TRUE                   \* start() if there is no browser
             /\ context' = FreshContext
             /\ active_contexts' = active_contexts \cup {FreshContext}
             /\ open_contexts' = open_contexts \cup {FreshContext}
             /\ pc' = "navigate"
             /\ UNCHANGED <<result, saved_log>>
        ELSE /\ result' = create_error_response("Evaluation failed")
             /\ SaveErrorLog(saved_log)
             /\ pc' = "finally"
             /\ UNCHANGED <<browser, context, active_contexts, open_contexts>>
    /\ UNCHANGED <<initialized, browser_manager, handler, req_vars, page, loop_vars, outcome,
                   saved_events, pure_vars, init_vars>>

(***************************************************************************)
(* run_evaluation, lines 231-258: start tracing, open the page, navigate   *)
(* to start_url, select the first white agent, enter the loop.             *)
(***************************************************************************)
NavigateOutcomes == {"ok", "tracing_fail", "new_page_fail", "goto_fail"}
\* on a closed context already context.tracing.start fails
NavigateOutcomesNow == IF ContextOpen THEN NavigateOutcomes ELSE {"tracing_fail"}

\* A navigation whose failure is recorded but does not end the run.
RunNavigate_FailureNotFatal ==
    /\ pc = "navigate"
    /\ \E o \in NavigateOutcomesNow :
        /\ page' = (o \in {"ok", "goto_fail"})
        /\ IF o \in {"tracing_fail", "new_page_fail"}
           THEN /\ result' = create_error_response("Evaluation failed")
                /\ pc' = "finally"
           ELSE IF o = "goto_fail"
           THEN /\ result' = create_error_response("Failed to navigate to start URL")
                /\ pc' = IF white_agents THEN "loop" ELSE "finally"
           ELSE IF ~white_agents
           THEN /\ result' = create_error_response("No white agents provided")
                /\ pc' = "finally"
           ELSE /\ result' = result
                /\ pc' = "loop"
        /\ IF o = "ok" /\ white_agents
           THEN saved_log' = saved_log
           ELSE SaveErrorLog(saved_log)
    /\ UNCHANGED <<ctl_vars, handler, req_vars, context, loop_vars, outcome, saved_events,
                   pure_vars, init_vars>>

RunNavigate ==
    /\ pc = "navigate"
    /\ \E o \in NavigateOutcomesNow :
        /\ page' = (o \in {"ok", "goto_fail"})
        /\ IF o \in {"tracing_fail", "new_page_fail"}
           THEN /\ result' = create_error_response("Evaluation failed")
                /\ pc' = "finally"
           ELSE IF o = "goto_fail"
           THEN /\ result' = create_error_response("Failed to navigate to start URL")
                /\ pc' = "finally"
           ELSE IF ~white_agents
           THEN /\ result' = create_error_response("No white agents provided")
                /\ pc' = "finally"
           ELSE /\ result' = result
                /\ pc' = "loop"
        /\ IF o = "ok" /\ white_agents
           THEN saved_log' = saved_log
           ELSE SaveErrorLog(saved_log)
    /\ UNCHANGED <<ctl_vars, handler, req_vars, context, loop_vars, outcome, saved_events,
                   pure_vars, init_vars>>

(***************************************************************************)
(* The while loop, line 260 and lines 262-271: the guard, the screenshot   *)
(* (optional) and extract_observation.  A failure of the observation is    *)
(* caught at line 362.                                                     *)
(***************************************************************************)
\* A loop guard that ignores the step budget.
LoopGuard_NoBudget == ~stopped
LoopGuard == step_idx < max_steps /\ ~stopped
\* extract_observation succeeds only on a page that is open
ObserveOutcomes == IF ContextOpen THEN BOOLEAN ELSE {FALSE}

RunObserve ==
    /\ pc = "loop"
    /\ LoopGuard
    /\ observations' = observations + 1
    /\ \E ok \in ObserveOutcomes :
        IF ok
        THEN /\ pc' = "call"
             /\ UNCHANGED <<step_idx, stopped, stop_reason>>
        ELSE /\ pc' = "loop"
             /\ step_idx' = step_idx + 1
             /\ stopped' = (step_idx + 1 >= max_steps)
             /\ stop_reason' = IF step_idx + 1 >= max_steps
                               THEN "max_steps_reached" ELSE stop_reason
    /\ UNCHANGED <<timeouts, invalid_actions, executed_actions, events, agent_result,
                   agent_calls, executor_calls>>
    /\ UNCHANGED outside_loop

RunLoopExit ==
    /\ pc = "loop"
    /\ ~LoopGuard
    /\ pc' = "after_loop"
    /\ UNCHANGED <<loop_vars, outside_loop>>

(***************************************************************************)
(* Lines 275-283: WhiteAgentClient.call_agent returns a response that has  *)
(* an `action` field, raises TimeoutError, or raises ValueError.           *)
(***************************************************************************)
RunCallAgent ==
    /\ pc = "call"
    /\ \E r \in AgentResults : agent_result' = r
    /\ agent_calls' = agent_calls + 1
    /\ pc' = "handle"
    /\ UNCHANGED <<step_idx, stopped, stop_reason, timeouts, invalid_actions,
                   executed_actions, events, observations, executor_calls>>
    /\ UNCHANGED outside_loop

\* A timeout handler that never gives up.
HandleTimeout_NoLimit ==
    /\ pc = "handle"
    /\ agent_result.kind = "timeout"
    /\ timeouts' = timeouts + 1
    /\ step_idx' = step_idx + 1
    /\ pc' = "loop"
    /\ UNCHANGED <<stopped, stop_reason, invalid_actions, executed_actions, events,
                   agent_result, agent_calls, observations, executor_calls>>
    /\ UNCHANGED outside_loop

\* Lines 348-354: except TimeoutError
HandleTimeout ==
    /\ pc = "handle"
    /\ agent_result.kind = "timeout"
    /\ timeouts' = timeouts + 1
    /\ step_idx' = step_idx + 1
    /\ stopped' = IF timeouts + 1 >= 3 THEN TRUE ELSE stopped
    /\ stop_reason' = IF timeouts + 1 >= 3 THEN "too_many_timeouts" ELSE stop_reason
    /\ pc' = "loop"
    /\ UNCHANGED <<invalid_actions, executed_actions, events, agent_result, agent_calls,
                   observations, executor_calls>>
    /\ UNCHANGED outside_loop

\* Lines 355-360: except Exception around the agent call
CallFailed ==
    /\ step_idx' = step_idx + 1
    /\ stopped' = IF step_idx + 1 >= max_steps THEN TRUE ELSE stopped
    /\ stop_reason' = IF step_idx + 1 >= max_steps THEN "max_steps_reached" ELSE stop_reason

\* A call failure that is counted as a timeout.
HandleCallError_CountsTimeout ==
    /\ pc = "handle"
    /\ agent_result.kind = "error"
    /\ CallFailed
    /\ timeouts' = timeouts + 1
    /\ pc' = "loop"
    /\ UNCHANGED <<invalid_actions, executed_actions, events, agent_result,
                   agent_calls, observations, executor_calls>>
    /\ UNCHANGED outside_loop

HandleCallError ==
    /\ pc = "handle"
    /\ agent_result.kind = "error"
    /\ CallFailed
    /\ pc' = "loop"
    /\ UNCHANGED <<timeouts, invalid_actions, executed_actions, events, agent_result,
                   agent_calls, observations, executor_calls>>
    /\ UNCHANGED outside_loop

\* The action validated at line 288
IsValid(action) == validate_action(action)[1]

(***************************************************************************)
(* Lines 289-307: the action fails validation.  For an action that is not  *)
(* a dictionary, action.get at line 293 raises AttributeError, which the   *)
(* handler of line 355 catches.                                            *)
(***************************************************************************)
\* An invalid-action branch that records the event but no executed_actions entry.
HandleInvalid_NoEntry ==
    /\ pc = "handle"
    /\ agent_result.kind = "ok"
    /\ ~IsValid(agent_result.action)
    /\ LET action == agent_result.action
           validation_error == validate_action(action)[2]
       IN  /\ invalid_actions' = invalid_actions + 1
           /\ IF IsDict(action)
              THEN /\ executed_actions' = executed_actions
                   /\ events' = Append(events, create_event_record(step_idx, action,
                          [success |-> FALSE, error |-> validation_error]))
                   /\ step_idx' = step_idx + 1
                   /\ UNCHANGED <<stopped, stop_reason>>
              ELSE /\ CallFailed
                   /\ UNCHANGED <<executed_actions, events>>
    /\ pc' = "loop"
    /\ UNCHANGED <<timeouts, agent_result, agent_calls, observations, executor_calls>>
    /\ UNCHANGED outside_loop

HandleInvalid ==
    /\ pc = "handle"
    /\ agent_result.kind = "ok"
    /\ ~IsValid(agent_result.action)
    /\ LET action == agent_result.action
           validation_error == validate_action(action)[2]
       IN  /\ invalid_actions' = invalid_actions + 1
           /\ IF IsDict(action)
              THEN /\ executed_actions' = Append(executed_actions,
                          [type |-> Get(action, "type", "unknown"), error |-> validation_error])
                   /\ events' = Append(events, create_event_record(step_idx, action,
                          [success |-> FALSE, error |-> validation_error]))
                   /\ step_idx' = step_idx + 1
                   /\ UNCHANGED <<stopped, stop_reason>>
              ELSE /\ CallFailed
                   /\ UNCHANGED <<executed_actions, events>>
    /\ pc' = "loop"
    /\ UNCHANGED <<timeouts, agent_result, agent_calls, observations, executor_calls>>
    /\ UNCHANGED outside_loop

\* A stop that is handed to the executor like any other action.
HandleStop_Executed ==
    /\ pc = "handle"
    /\ agent_result.kind = "ok"
    /\ IsValid(agent_result.action)
    /\ Get(agent_result.action, "type", None) = "stop"
    /\ LET action == agent_result.action
       IN  /\ executor_calls' = Append(executor_calls, action)
           /\ executed_actions' = Append(executed_actions, action)
           /\ events' = Append(events, create_event_record(step_idx, action,
                  execute_action(action, "ok")))
    /\ step_idx' = step_idx + 1
    /\ pc' = "loop"
    /\ UNCHANGED <<stopped, stop_reason, timeouts, invalid_actions, agent_result,
                   agent_calls, observations>>
    /\ UNCHANGED outside_loop

\* Lines 309-323: a valid stop action
HandleStop ==
    /\ pc = "handle"
    /\ agent_result.kind = "ok"
    /\ IsValid(agent_result.action)
    /\ Get(agent_result.action, "type", None) = "stop"
    /\ LET action == agent_result.action
           reason == Get(action, "reason", "done")
       IN  /\ stopped' = TRUE
           /\ stop_reason' = reason
           /\ executed_actions' = Append(executed_actions, action)
           /\ events' = Append(events, create_event_record(step_idx, action,
                  [success |-> TRUE, stop_reason |-> reason]))
    /\ pc' = "after_loop"                       \* break
    /\ UNCHANGED <<step_idx, timeouts, invalid_actions, agent_result, agent_calls,
                   observations, executor_calls>>
    /\ UNCHANGED outside_loop

\* the page operation fails on a page that is closed
PageOutcomesNow == IF ContextOpen THEN PageOutcomes ELSE {"error"}

\* An execute branch that is not gated by the validation.
HandleExecute_NoGate ==
    /\ pc = "handle"
    /\ agent_result.kind = "ok"
    /\ IsDict(agent_result.action)
    /\ Get(agent_result.action, "type", None) # "stop"
    /\ \E po \in PageOutcomesNow :
        LET action == agent_result.action
            execution_result == execute_action(action, po)
        IN  /\ executor_calls' = Append(executor_calls, action)
            /\ executed_actions' = Append(executed_actions, action)
            /\ events' = Append(events, create_event_record(step_idx, action, execution_result))
    /\ step_idx' = step_idx + 1
    /\ pc' = "loop"
    /\ UNCHANGED <<stopped, stop_reason, timeouts, invalid_actions, agent_result,
                   agent_calls, observations>>
    /\ UNCHANGED outside_loop

\* Lines 325-346: a valid action other than stop is executed
HandleExecute ==
    /\ pc = "handle"
    /\ agent_result.kind = "ok"
    /\ IsValid(agent_result.action)
    /\ Get(agent_result.action, "type", None) # "stop"
    /\ \E po \in PageOutcomesNow :
        LET action == agent_result.action
            execution_result == execute_action(action, po)
        IN  /\ executor_calls' = Append(executor_calls, action)
            /\ executed_actions' = Append(executed_actions, action)
            /\ events' = Append(events, create_event_record(step_idx, action, execution_result))
    /\ step_idx' = step_idx + 1
    /\ pc' = "loop"
    /\ UNCHANGED <<stopped, stop_reason, timeouts, invalid_actions, agent_result,
                   agent_calls, observations>>
    /\ UNCHANGED outside_loop

(***************************************************************************)
(* Lines 369-424: stop tracing (failure ignored), capture the final state, *)
(* judge, score, save the artifacts and return; any failure is caught at   *)
(* line 421 and becomes an error response.                                 *)
(***************************************************************************)
AfterLoopOutcomes ==
    {"ok", "capture_fail", "save_events_fail", "save_log_fail", "save_trace_fail"}
\* page.content() fails on a page that is closed
AfterLoopOutcomesNow == IF ContextOpen THEN AfterLoopOutcomes ELSE {"capture_fail"}

FinalHtmls == { <<"<", "p", ">">>, <<"<", "p", " ">> \o IdOpen \o <<"a", Quote, ">">> }
FinalUrls == { <<"a">>, <<"a", "b">> }

\* lines 384-386: the trace match, computed only for a task with gold actions
trace_match_ratio(task_spec) ==
    IF task_spec.gold_actions # PyNone /\ task_spec.gold_actions # <<>>
    THEN "computed" ELSE None

\* A judged response that counts every loop iteration, the stop step included.
JudgedResponse_CountsStop(final_success) ==
    [kind |-> "response", success |-> final_success, error |-> None,
     final_success |-> IF final_success THEN 1 ELSE 0,
     steps_taken |-> observations, timeouts |-> timeouts,
     invalid_actions |-> invalid_actions,
     trace_match_ratio |-> trace_match_ratio(load_task_from_run_request)]

JudgedResponse(final_success) ==
    [kind |-> "response", success |-> final_success, error |-> None,
     final_success |-> IF final_success THEN 1 ELSE 0,
     steps_taken |-> step_idx, timeouts |-> timeouts,
     invalid_actions |-> invalid_actions,
     trace_match_ratio |-> trace_match_ratio(load_task_from_run_request)]

RunJudge ==
    /\ pc = "after_loop"
    /\ \E o \in AfterLoopOutcomesNow, final_html \in FinalHtmls, final_url \in FinalUrls :
        /\ IF o = "ok"
           THEN result' = JudgedResponse(
                    judge_final_success(load_task_from_run_request, final_html, final_url))
           ELSE result' = create_error_response("Evaluation failed")
        \* line 400: save_run_events, reached once the final state is captured
        /\ saved_events' = IF o = "capture_fail" \/ o = "save_events_fail"
                           THEN saved_events ELSE Saved(events)
        \* line 401: save_run_log; on the error path log.txt is overwritten
        /\ IF o = "ok" THEN saved_log' = "log_lines"
           ELSE IF o = "save_trace_fail" THEN SaveErrorLog("log_lines")
           ELSE SaveErrorLog(saved_log)
    /\ pc' = "finally"
    /\ UNCHANGED <<ctl_vars, handler, req_vars, context, page, loop_vars, outcome, pure_vars, init_vars>>

\* A close_context that closes the context and keeps tracking it.
close_context_NoDiscard(c) ==
    /\ open_contexts' = open_contexts \ {c}
    /\ active_contexts' = active_contexts

\* BrowserManager.close_context
close_context(c) ==
    /\ open_contexts' = open_contexts \ {c}       \* context.close(), errors ignored
    /\ active_contexts' = active_contexts \ {c}   \* finally: discard

(***************************************************************************)
(* Lines 426-434: the finally block, then the pending return.              *)
(***************************************************************************)
RunFinally ==
    /\ pc = "finally"
    /\ IF context # 0 /\ browser_manager # None
       THEN close_context(context)
       ELSE UNCHANGED <<active_contexts, open_contexts>>
    /\ outcome' = IF context # 0 /\ browser_manager = None
                  THEN Raised("cleanup")      \* None has no close_context
                  ELSE result
    /\ pc' = "done"
    /\ UNCHANGED <<initialized, browser_manager, browser, handler, req_vars, context, page,
                   loop_vars, result, pure_vars, init_vars, artifact_vars>>

(***************************************************************************)
(* TaskController.reset, between requests: BrowserManager.stop closes and  *)
(* forgets every context and the browser.                                  *)
(***************************************************************************)
Reset ==
    /\ Idle
    /\ browser_manager # None
    /\ open_contexts' = open_contexts \ active_contexts
    /\ active_contexts' = {}
    /\ browser' = FALSE
    /\ browser_manager' = None
    /\ initialized' = FALSE
    /\ UNCHANGED <<run_vars, pure_vars, init_vars>>

(***************************************************************************)
(* execute_task, lines 72-86: initialize if needed, load the task from     *)
(* the tasks file, validate it; each failure raises to the caller.         *)
(***************************************************************************)
TaskLoadOutcomes == {"ok", "load_fail", "invalid_spec"}

TaskStart ==
    /\ Idle
    /\ \E lo \in TaskLoadOutcomes, io \in IF initialized THEN {"ok"} ELSE InitOutcomes :
        /\ handler' = "execute_task"
        /\ IF ~initialized
           THEN initialize(io)
           ELSE UNCHANGED <<initialized, browser_manager, browser, active_contexts>>
        /\ IF ~initialized /\ io # "ok"
           THEN /\ pc' = "done"
                /\ outcome' = Raised("initialize")
           ELSE IF lo = "load_fail"
           THEN /\ pc' = "done"
                /\ outcome' = Raised("Failed to load task")
           ELSE IF lo = "invalid_spec"
           THEN /\ pc' = "done"
                /\ outcome' = Raised("Invalid task specification")
           ELSE /\ pc' = "task_create_context"
                /\ outcome' = NoResult
    /\ ResetLocals
    /\ UNCHANGED <<open_contexts, req_vars, result, pure_vars, init_vars, artifact_vars>>

\* execute_task, line 89: create_context, outside the try block
TaskCreateContext ==
    /\ pc = "task_create_context"
    /\ \E ok \in CreateOutcomes :
        IF ok
        THEN /\ browser' = TRUE
             /\ context' = FreshContext
             /\ active_contexts' = active_contexts \cup {FreshContext}
             /\ open_contexts' = open_contexts \cup {FreshContext}
             /\ pc' = "task_body"
             /\ UNCHANGED outcome
        ELSE /\ outcome' = Raised("create_context")
             /\ pc' = "done"
             /\ UNCHANGED <<browser, context, active_contexts, open_contexts>>
    /\ UNCHANGED <<initialized, browser_manager, handler, req_vars, page, loop_vars, result,
                   pure_vars, init_vars, artifact_vars>>

(***************************************************************************)
(* execute_task, lines 91-157: run the stub agent, capture, judge, save    *)
(* and return the report; any failure becomes a ValueError.                *)
(***************************************************************************)
TaskBody ==
    /\ pc = "task_body"
    /\ \E ok \in ObserveOutcomes, success \in BOOLEAN :
        result' = IF ok THEN [kind |-> "report", success |-> success]
                  ELSE Raised("Task execution failed")
    /\ pc' = "task_finally"
    /\ UNCHANGED <<ctl_vars, handler, req_vars, context, page, loop_vars, outcome, pure_vars, init_vars,
                   artifact_vars>>

\* execute_task, lines 159-161: the finally block, then the pending return or raise
TaskFinally ==
    /\ pc = "task_finally"
    /\ IF browser_manager # None
       THEN close_context(context)
       ELSE UNCHANGED <<active_contexts, open_contexts>>
    /\ outcome' = IF browser_manager = None
                  THEN Raised("cleanup")      \* None has no close_context
                  ELSE result
    /\ pc' = "done"
    /\ UNCHANGED <<initialized, browser_manager, browser, handler, req_vars, context, page,
                   loop_vars, result, pure_vars, init_vars, artifact_vars>>

(***************************************************************************)
(* The request has returned (or raised): its locals are gone, the          *)
(* controller serves the next request.                                     *)
(***************************************************************************)
Return ==
    /\ pc = "done"
    /\ pc' = "idle"
    /\ handler' = None
    /\ max_steps' = 0
    /\ white_agents' = FALSE
    /\ timed_out' = FALSE
    /\ ResetLocals
    /\ result' = NoResult
    /\ saved_events' = NotSaved
    /\ saved_log' = "none"
    /\ UNCHANGED <<ctl_vars, outcome, pure_vars, init_vars>>

Next ==
    \/ RunStart
    \/ RunCreateContext
    \/ RunNavigate
    \/ RunObserve
    \/ RunLoopExit
    \/ RunCallAgent
    \/ HandleTimeout
    \/ HandleCallError
    \/ HandleInvalid
    \/ HandleStop
    \/ HandleExecute
    \/ RunJudge
    \/ RunFinally
    \/ TaskStart
    \/ TaskCreateContext
    \/ TaskBody
    \/ TaskFinally
    \/ Return
    \/ Reset

Spec == Init /\ [][Next]_vars

(***************************************************************************)
(* Properties of run_evaluation and execute_task, checked under Spec.      *)
(***************************************************************************)
InRun == handler = "run_evaluation"
AfterLoop == InRun /\ pc \in {"after_loop", "finally", "done"}
Judged(r) == r.kind = "response" /\ r.error = None
ValidStop(r) ==
    /\ r.kind = "ok"
    /\ IsValid(r.action)
    /\ Get(r.action, "type", None) = "stop"

\* C1: in every run the number of agent calls is at most limits.max_steps and
\* the reported steps_taken never exceeds limits.max_steps (stated on the runs
\* that return a judged response).
C1_StepBudget ==
    (InRun /\ pc = "done" /\ Judged(outcome))
        => (agent_calls <= max_steps /\ outcome.steps_taken <= max_steps)

\* The step budget as the loop keeps it: for a non-negative max_steps neither
\* the agent calls nor step_idx exceed it.
StepBudgetNonNegative ==
    (InRun /\ max_steps >= 0) => (agent_calls <= max_steps /\ step_idx <= max_steps)

\* C2: a timeout increments the timeout counter and advances step_idx and does
\* nothing else while fewer than 3 timeouts have occurred; the third timeout
\* stops the loop with stop_reason too_many_timeouts, whatever max_steps is,
\* and no agent call follows it.
C2_TimeoutStep ==
    (pc = "handle" /\ agent_result.kind = "timeout")
        => /\ timeouts' = timeouts + 1
           /\ step_idx' = step_idx + 1
           /\ invalid_actions' = invalid_actions
           /\ events' = events
           /\ executed_actions' = executed_actions
           /\ executor_calls' = executor_calls
           /\ IF timeouts + 1 < 3
              THEN stopped' = stopped /\ stop_reason' = stop_reason
              ELSE stopped' /\ stop_reason' = "too_many_timeouts"

C2_AfterThird ==
    (InRun /\ timeouts >= 3)
        => /\ timeouts = 3
           /\ stopped
           /\ stop_reason = "too_many_timeouts"
           /\ pc \in {"loop", "after_loop", "finally", "done"}

C2_ThreeTimeoutsStop ==
    /\ [][C2_TimeoutStep]_vars
    /\ [](C2_AfterThird)
    /\ [][(InRun /\ timeouts >= 3 /\ pc # "done") => agent_calls' = agent_calls]_vars

C2_Witness ==
    /\ InRun /\ pc = "done"
    /\ timeouts = 3
    /\ step_idx < max_steps
    /\ stop_reason = "too_many_timeouts"
    /\ Judged(outcome)

\* C3: a valid stop action at step k appends exactly one EventRecord for step
\* k, changes neither counter, leaves the loop, and is followed by no agent
\* call and no executed action; a stop at step 0 leaves exactly one event and
\* both counters at 0.
C3_StopActionStep ==
    (pc = "handle" /\ ValidStop(agent_result))
        => /\ Len(events') = Len(events) + 1
           /\ SubSeq(events', 1, Len(events)) = events
           /\ events'[Len(events')].step_idx = step_idx
           /\ events'[Len(events')].action = agent_result.action
           /\ timeouts' = timeouts
           /\ invalid_actions' = invalid_actions
           /\ agent_calls' = agent_calls
           /\ executor_calls' = executor_calls
           /\ pc' = "after_loop"

C3_StopAtZero ==
    (AfterLoop /\ stopped /\ step_idx = 0)
        => /\ Len(events) = 1
           /\ events[1].step_idx = 0
           /\ timeouts = 0
           /\ invalid_actions = 0

C3_StopEndsLoop ==
    /\ [][C3_StopActionStep]_vars
    /\ [](C3_StopAtZero)
    /\ [][(AfterLoop /\ pc # "done")
             => (agent_calls' = agent_calls /\ executor_calls' = executor_calls
                 /\ events' = events)]_vars

C3_Witness ==
    /\ AfterLoop
    /\ stopped /\ stop_reason = "finished"
    /\ step_idx = 2 /\ timeouts = 1 /\ invalid_actions = 1
    /\ Len(events) = 2
    /\ events[2].step_idx = 2

\* C4: every context created by run_evaluation or execute_task is closed and
\* removed from the active set before the call returns or raises; with no
\* request in flight the active-context count is 0.
C4_ContextsReleased ==
    (pc \in {"idle", "done"}) => (active_contexts = {} /\ open_contexts = {})

C4_Witness ==
    /\ InRun /\ pc = "done"
    /\ context # 0
    /\ outcome.kind = "response" /\ outcome.error = "Evaluation failed"
    /\ Len(events) >= 1

\* C5: run_evaluation always returns a RunResponse and never propagates an
\* exception, whatever fails.
C5_AlwaysResponse ==
    (InRun /\ pc = "done") => outcome.kind = "response"

\* C6: a failed navigation ends the run with an error response (success
\* false, error set, steps_taken 0) and no observation, agent call, executed
\* action or event.
NavigationFailed(r) ==
    r.kind = "response" /\ r.error = "Failed to navigate to start URL"

C6_NavigationFailureIsFatal ==
    /\ (InRun /\ NavigationFailed(result))
          => /\ pc \in {"finally", "done"}
             /\ observations = 0
             /\ agent_calls = 0
             /\ executor_calls = <<>>
             /\ events = <<>>
             /\ result.success = FALSE
             /\ result.steps_taken = 0
    /\ (InRun /\ pc = "done" /\ NavigationFailed(result)) => outcome = result

C6_Witness == InRun /\ pc = "done" /\ NavigationFailed(outcome)

\* C7: execute_action is only ever called with an action that validate_action
\* accepted and whose type is not stop.
C7_OnlyValidatedActionsExecuted ==
    \A i \in 1..Len(executor_calls) :
        /\ IsValid(executor_calls[i])
        /\ executor_calls[i].type # "stop"

C7_Witness ==
    /\ InRun
    /\ Len(executor_calls) >= 1
    /\ invalid_actions >= 1

(***************************************************************************)
(* validate_action as a function: the inputs are every dictionary over the *)
(* action fields with every kind of `type` (each allowed type, a type      *)
(* outside the vocabulary, an empty one, none), and a value that is not a  *)
(* dictionary.                                                             *)
(***************************************************************************)
ActionFields == {"selector", "text", "value", "delta_y", "ms", "reason"}
TypeValues == allowed_types \cup {"hover", ""}
FieldValue(k) == IF k = "selector" THEN "#x" ELSE "v"

ValidateInputs ==
    {NotADict}
        \cup {[k \in ks |-> FieldValue(k)] : ks \in SUBSET ActionFields}
        \cup {[k \in ks \cup {"type"} |-> IF k = "type" THEN t ELSE FieldValue(k)] :
                 ks \in SUBSET ActionFields, t \in TypeValues}

InitValidate ==
    /\ InitCtl /\ InitRun
    /\ call \in {[fn |-> "validate_action", action |-> a] : a \in ValidateInputs}
    /\ ret = NoRet

ValidateAction ==
    /\ call.fn = "validate_action"
    /\ ret = NoRet
    /\ ret' = [fn |-> "validate_action",
               ok |-> validate_action(call.action)[1],
               reason |-> validate_action(call.action)[2]]
    /\ UNCHANGED <<ctl_vars, run_vars, call, init_vars>>

SpecValidate == InitValidate /\ [][ValidateAction]_vars

\* the fields each action type requires (spec, data model and executor contract)
RequiredFields(t) ==
    CASE t = "click" -> {"selector"}
      [] t = "type" -> {"selector", "text"}
      [] t = "select" -> {"selector", "value"}
      [] t = "scroll" -> {"delta_y"}
      [] t = "wait" -> {"ms"}
      [] t = "stop" -> {"reason"}

WellFormed(a) ==
    /\ IsDict(a)
    /\ "type" \in DOMAIN a
    /\ a.type \in allowed_types
    /\ RequiredFields(a.type) \subseteq DOMAIN a

\* C8: validate_action accepts exactly the dictionaries whose type is in the
\* vocabulary and that carry every required field of that type; a rejection
\* has a reason, and when a field is missing the reason names a missing field;
\* {type: click} is rejected and {type: click, selector: '#x'} is accepted.
C8_ValidateAction ==
    ret.fn = "validate_action" =>
        LET a == call.action IN
        /\ ret.ok = WellFormed(a)
        /\ ~ret.ok => ret.reason # NoReason
        /\ (IsDict(a) /\ "type" \notin DOMAIN a)
              => (ret.reason.msg = "missing" /\ ret.reason.field = "type")
        /\ (~ret.ok /\ IsDict(a) /\ "type" \in DOMAIN a /\ a.type \in allowed_types)
              => /\ ret.reason.msg = "missing"
                 /\ ret.reason.field \in RequiredFields(a.type) \ DOMAIN a
        /\ a = [type |-> "click"] => ~ret.ok
        /\ a = [type |-> "click", selector |-> "#x"] => ret.ok

C8_Witness ==
    /\ ret.fn = "validate_action"
    /\ call.action = [type |-> "click"]
    /\ ~ret.ok
    /\ ret.reason = MissingField("Click", "selector")

(***************************************************************************)
(* judge_final_success as a function of the task, the final markup and the *)
(* final URL.                                                              *)
(***************************************************************************)
Elem(attrs) == <<"<", "p">> \o attrs \o <<">">>
IdAttr(v) == <<" ">> \o IdOpen \o v \o <<Quote>>
ClassAttr(v) == <<" ">> \o ClassOpen \o v \o <<Quote>>

JudgeHtmls ==
    { Elem(<<>>),
      Elem(IdAttr(<<"a">>)),
      Elem(ClassAttr(<<"b", "c">>)),
      Elem(IdAttr(<<"a">>) \o ClassAttr(<<"b">>)) }

JudgeUrls == { <<"a">>, <<"a", "b">>, <<"b", "a">> }

UrlContainsValues == { <<"b">>, <<"a", "b">>, <<>> }
TextPresentValues == { <<"p">>, <<"z">>, <<"i", ".", "=">>, <<"(">> }
SelectorValues ==
    { <<"#", "a">>, <<"#", "c">>, <<"#", "a", " ", ".", "b">>, <<".", "b">>,
      <<".", "(">>, <<"p">> }
CriteriaKeys == {"url_contains", "text_present", "selector_present", "note"}

CriteriaValues(k) ==
    CASE k = "url_contains" -> UrlContainsValues
      [] k = "text_present" -> TextPresentValues
      [] k = "selector_present" -> SelectorValues
      [] k = "note" -> { <<"n">> }

CriteriaMaps ==
    UNION { [ks -> UNION {CriteriaValues(k) : k \in ks}] : ks \in SUBSET CriteriaKeys }

SuccessCriteria ==
    {PyNone} \cup {m \in CriteriaMaps : \A k \in DOMAIN m : m[k] \in CriteriaValues(k)}

ExpectedPairs ==
    {PyNone} \cup {[css |-> c, regex |-> <<"p">>] : c \in { <<"#", "a">>, <<".", "c">> }}

JudgeTasks ==
    {[success_criteria |-> sc, expected |-> e, gold_actions |-> PyNone] :
        sc \in SuccessCriteria, e \in ExpectedPairs}

InitJudge ==
    /\ InitCtl /\ InitRun
    /\ call \in {[fn |-> "judge_final_success", task_spec |-> t, final_html |-> h,
                  final_url |-> u] : t \in JudgeTasks, h \in JudgeHtmls, u \in JudgeUrls}
    /\ ret = NoRet

JudgeFinalSuccess ==
    /\ call.fn = "judge_final_success"
    /\ ret = NoRet
    /\ ret' = [fn |-> "judge_final_success",
               value |-> judge_final_success(call.task_spec, call.final_html, call.final_url)]
    /\ UNCHANGED <<ctl_vars, run_vars, call, init_vars>>

SpecJudge == InitJudge /\ [][JudgeFinalSuccess]_vars

JudgeKeys == {"url_contains", "text_present", "selector_present"}
IsMap(c) == c # PyNone
PresentKeys(c) == JudgeKeys \cap DOMAIN c

\* C9: the judge returns false for every task whose success_criteria map has
\* none of the keys url_contains, text_present, selector_present, be the map
\* empty or made of other keys only, with or without a legacy expected pair.
C9_NoKeyIsFalse ==
    (ret.fn = "judge_final_success"
        /\ IsMap(call.task_spec.success_criteria)
        /\ PresentKeys(call.task_spec.success_criteria) = {})
      => ret.value = FALSE

\* one present key passes
KeyPasses(k, c, html, url) ==
    CASE k = "url_contains" -> IsSubstring(c[k], url)
      [] k = "text_present" -> RegexValid(c[k]) /\ RegexSearch(c[k], html)
      [] k = "selector_present" -> check_css_selector_exists(c[k], html)

\* C10: when success_criteria has at least one of the three keys, the judge
\* returns true if and only if every present key passes; a text_present that
\* is an invalid regex makes the judge return false.
C10_AllPresentKeysMustPass ==
    (ret.fn = "judge_final_success"
        /\ IsMap(call.task_spec.success_criteria)
        /\ PresentKeys(call.task_spec.success_criteria) # {})
      => LET c == call.task_spec.success_criteria IN
         /\ ret.value = (\A k \in PresentKeys(c) :
                            KeyPasses(k, c, call.final_html, call.final_url))
         /\ ("text_present" \in DOMAIN c /\ ~RegexValid(c["text_present"]))
               => ret.value = FALSE

C10_Witness ==
    /\ ret.fn = "judge_final_success"
    /\ IsMap(call.task_spec.success_criteria)
    /\ PresentKeys(call.task_spec.success_criteria) = JudgeKeys
    /\ call.task_spec.success_criteria["selector_present"] = <<"#", "a", " ", ".", "b">>
    /\ call.task_spec.success_criteria["text_present"] = <<"i", ".", "=">>
    /\ call.task_spec.success_criteria["url_contains"] = <<"a", "b">>
    /\ ret.value = TRUE

(***************************************************************************)
(* The legacy {css, regex} pair: judge_outcome (the judge of execute_task)  *)
(* and the fallback of judge_final_success, over start and final URLs with  *)
(* a host.                                                                 *)
(***************************************************************************)
IsLetter(c) == c \in {"a", "b", "c", "h", "l", "o", "s", "t"}
IsSchemeChar(c) == c \notin {"/", "?", "#", ":", " "}

\* urllib.parse.urlsplit: the scheme is cut at the first ":" when what
\* precedes it is a letter followed by scheme characters
StripScheme(u) ==
    LET i == FirstIndex(u, ":") IN
    IF i > 1 /\ IsLetter(u[1]) /\ (\A j \in 1..(i - 1) : IsSchemeChar(u[j]))
    THEN SubSeq(u, i + 1, Len(u))
    ELSE u

\* urlparse(u).netloc: what follows "//" up to the first "/", "?" or "#"
Netloc(u) ==
    LET r == StripScheme(u) IN
    IF Len(r) >= 2 /\ r[1] = "/" /\ r[2] = "/"
    THEN LET ends == {k \in 3..Len(r) : r[k] \in {"/", "?", "#"}}
             d == IF ends = {} THEN Len(r) + 1
                  ELSE CHOOSE k \in ends : \A m \in ends : k <= m
         IN  SubSeq(r, 3, d - 1)
    ELSE <<>>

Localhost == <<"l", "o", "c", "a", "l", "h", "o", "s", "t">>
Loopback == <<"1", "2", "7", ".", "0", ".", "0", ".", "1">>

\* judge._check_domain_match
check_domain_match(start_url, final_url) ==
    LET start_domain == Netloc(start_url)
        final_domain == Netloc(final_url)
    IN  IF IsSubstring(Localhost, start_domain) \/ IsSubstring(Loopback, start_domain)
        THEN IsSubstring(Localhost, final_domain) \/ IsSubstring(Loopback, final_domain)
        ELSE start_domain = final_domain

\* judge.judge_outcome: the success flag
judge_outcome(task_spec, agent_result_, final_html) ==
    LET css_selector_exists == check_css_selector_exists(task_spec.expected.css, final_html)
        regex_match == check_regex_match(task_spec.expected.regex, agent_result_.answer_text)
        on_task_domain == check_domain_match(task_spec.start_url, agent_result_.final_url)
    IN  css_selector_exists /\ regex_match /\ on_task_domain

SlashSlash == <<"/", "/">>
StartUrls == { <<"h", ":">> \o SlashSlash \o <<"a">>, SlashSlash \o Localhost, <<"a">> }
LegacyFinalUrls ==
    { <<"h", ":">> \o SlashSlash \o <<"a", "/", "b">>, SlashSlash \o <<"b">>,
      SlashSlash \o Loopback, <<"a">> }
AnswerTexts == { <<"p">>, <<"q">> }
LegacyPairs ==
    {[css |-> c, regex |-> r] : c \in { <<"#", "a">>, <<".", "c">>, <<"p">> },
                                r \in { <<"p">>, <<"(">> }}

LegacyTasks ==
    {[success_criteria |-> PyNone, expected |-> e, gold_actions |-> PyNone, start_url |-> s] :
        e \in LegacyPairs, s \in StartUrls}

InitLegacy ==
    /\ InitCtl /\ InitRun
    /\ call \in {[fn |-> "judge_final_success", task_spec |-> t, final_html |-> h,
                  final_url |-> u] :
                     t \in LegacyTasks, h \in JudgeHtmls, u \in LegacyFinalUrls}
              \cup {[fn |-> "judge_outcome", task_spec |-> t, final_html |-> h,
                     agent_result |-> [answer_text |-> a, final_url |-> u]] :
                     t \in LegacyTasks, h \in JudgeHtmls, u \in LegacyFinalUrls,
                     a \in AnswerTexts}
    /\ ret = NoRet

JudgeOutcome ==
    /\ call.fn = "judge_outcome"
    /\ ret = NoRet
    /\ ret' = [fn |-> "judge_outcome",
               value |-> judge_outcome(call.task_spec, call.agent_result, call.final_html)]
    /\ UNCHANGED <<ctl_vars, run_vars, call, init_vars>>

SpecLegacy == InitLegacy /\ [][JudgeFinalSuccess \/ JudgeOutcome]_vars

\* C11: with no success_criteria and a legacy expected pair, the judge called
\* with the task, the final markup and the final URL returns true only if the
\* CSS selector exists in the markup and the final URL's domain matches the
\* start URL's domain (the third condition, the regex against the answer
\* text, has no argument to be checked against in this call).
C11_LegacyNeedsAllThree ==
    (ret.fn = "judge_final_success"
        /\ call.task_spec.success_criteria = PyNone
        /\ call.task_spec.expected # PyNone
        /\ ret.value = TRUE)
      => /\ check_css_selector_exists(call.task_spec.expected.css, call.final_html)
         /\ check_domain_match(call.task_spec.start_url, call.final_url)

\* judge_outcome itself requires all three.
JudgeOutcomeNeedsAllThree ==
    ret.fn = "judge_outcome" =>
        ret.value = (/\ check_css_selector_exists(call.task_spec.expected.css, call.final_html)
                     /\ RegexValid(call.task_spec.expected.regex)
                     /\ RegexSearch(call.task_spec.expected.regex, call.agent_result.answer_text)
                     /\ check_domain_match(call.task_spec.start_url, call.agent_result.final_url))

(***************************************************************************)
(* Compound selectors '#<id> .<class>' as selector_present, over markup of  *)
(* the form <div[ id="I"]><span[ class="C"]>$</span></div>.                *)
(***************************************************************************)
Product3 == <<"p", "r", "o", "d", "u", "c", "t", "-", "3">>
Product1 == <<"p", "r", "o", "d", "u", "c", "t", "-", "1">>
Price == <<"p", "r", "i", "c", "e">>
SelectorIds == {Product3, Product1, <<"a">>}
SelectorClasses == {Price, <<"b">>}
MarkupIds == SelectorIds \cup {<<>>}
MarkupClasses == {Price, <<"b", "i", "g", " ">> \o Price, <<"b">>, <<>>}

\* '#<id> .<class>'
CompoundSelector(id, cls) == <<"#">> \o id \o <<" ", ".">> \o cls

Markup(id, cls) ==
    <<"<", "d", "i", "v">> \o (IF id = <<>> THEN <<>> ELSE IdAttr(id)) \o <<">">>
       \o <<"<", "s", "p", "a", "n">> \o (IF cls = <<>> THEN <<>> ELSE ClassAttr(cls))
       \o <<">", "$", "<", "/", "s", "p", "a", "n", ">", "<", "/", "d", "i", "v", ">">>

InitSelector ==
    /\ InitCtl /\ InitRun
    /\ call \in {[fn |-> "judge_final_success",
                  task_spec |-> [success_criteria |-> [selector_present |-> CompoundSelector(i, c)],
                                 expected |-> PyNone, gold_actions |-> PyNone],
                  final_html |-> Markup(mi, mc), final_url |-> <<"a">>] :
                     i \in SelectorIds, c \in SelectorClasses,
                     mi \in MarkupIds, mc \in MarkupClasses}
    /\ ret = NoRet

SpecSelector == InitSelector /\ [][JudgeFinalSuccess]_vars

\* the markup has the attribute id="<id>"
HasIdAttr(id, html) == IsSubstring(IdOpen \o id \o <<Quote>>, html)

\* the markup has a class attribute whose value contains cls
HasClassAttrContaining(cls, html) ==
    \E i \in 1..Len(html), j \in 1..Len(html) :
        /\ MatchesAt(ClassOpen, html, i)
        /\ j >= i + Len(ClassOpen)
        /\ html[j] = Quote
        /\ \A k \in (i + Len(ClassOpen))..(j - 1) : html[k] # Quote
        /\ IsSubstring(cls, SubSeq(html, i + Len(ClassOpen), j - 1))

\* C12: with selector_present '#<id> .<class>' the judge returns true when the
\* markup contains id="<id>" and a class attribute containing <class>, and
\* false when the markup does not contain id="<id>"; '#product-3 .price' is
\* judged true on <div id="product-3"><span class="price">, false when the
\* id is product-1.
C12_CompoundSelector ==
    ret.fn = "judge_final_success" =>
        \A i \in SelectorIds, c \in SelectorClasses :
            call.task_spec.success_criteria = [selector_present |-> CompoundSelector(i, c)]
              => /\ (HasIdAttr(i, call.final_html) /\ HasClassAttrContaining(c, call.final_html))
                        => ret.value = TRUE
                 /\ ~HasIdAttr(i, call.final_html) => ret.value = FALSE
                 /\ (i = Product3 /\ c = Price /\ call.final_html = Markup(Product3, Price))
                        => ret.value = TRUE
                 /\ (i = Product3 /\ c = Price /\ call.final_html = Markup(Product1, Price))
                        => ret.value = FALSE

C12_Witness ==
    /\ ret.fn = "judge_final_success"
    /\ call.task_spec.success_criteria = [selector_present |-> CompoundSelector(Product3, Price)]
    /\ call.final_html = Markup(Product1, Price)
    /\ HasClassAttrContaining(Price, call.final_html)
    /\ ret.value = FALSE

(***************************************************************************)
(* judge.compute_trace_match.  A ratio is kept as numerator and            *)
(* denominator; an exception leaving the function is the result raised.    *)
(* A selector value is text ([text |-> characters]) or another JSON value. *)
(***************************************************************************)
MaxTrace == 2           \* longest executed / gold action list

Text(t) == [text |-> t]
NonText == [py |-> "int"]
IsStr(v) == "text" \in DOMAIN v

Ratio(n, d) == [raised |-> FALSE, num |-> n, den |-> d]
TraceRaised == [raised |-> TRUE]

\* "".join(s.split())
RemoveWhitespace(t) == SelectSeq(t, LAMBDA c : c # " ")

\* judge._actions_roughly_match: "match", "nomatch" or "raise"
actions_roughly_match(executed, gold) ==
    IF Get(executed, "selector", PyNone) = Get(gold, "selector", PyNone) THEN "match"
    ELSE LET action_type == Get(executed, "type", None)
             exec_sel == Get(executed, "selector", Text(<<>>))
             gold_sel == Get(gold, "selector", Text(<<>>))
         IN
         IF action_type \in {"click", "type", "select"} THEN
             IF ~IsStr(exec_sel) \/ ~IsStr(gold_sel) THEN "raise"     \* no .split()
             ELSE IF RemoveWhitespace(exec_sel.text) = RemoveWhitespace(gold_sel.text)
                  THEN "match"
             ELSE IF IsSubstring(exec_sel.text, gold_sel.text)
                       \/ IsSubstring(gold_sel.text, exec_sel.text)
                  THEN "match"
             ELSE "nomatch"
         ELSE IF action_type = "scroll" THEN
             LET exec_delta == Get(executed, "delta_y", 0)
                 gold_delta == Get(gold, "delta_y", 0)
                 diff == IF exec_delta >= gold_delta THEN exec_delta - gold_delta
                         ELSE gold_delta - exec_delta
             IN  IF diff < 100 THEN "match" ELSE "nomatch"
         ELSE "nomatch"

\* lines 186-189: gold_by_step after the gold actions from position i on
RECURSIVE GoldByStep(_, _, _)
GoldByStep(gold_actions, i, gold_by_step) ==
    IF i > Len(gold_actions) THEN gold_by_step
    ELSE LET gold_action == gold_actions[i]
             step == Get(gold_action, "step", Cardinality(DOMAIN gold_by_step))
         IN  GoldByStep(gold_actions, i + 1,
                 [k \in DOMAIN gold_by_step \cup {step} |->
                     IF k = step THEN gold_action ELSE gold_by_step[k]])

\* executed_actions[step_idx] is defined (Python list indexing)
IndexInRange(list, k) == (0 - Len(list)) <= k /\ k < Len(list)
\* executed_actions[step_idx]
PyIndex(list, k) == IF k >= 0 THEN list[k + 1] ELSE list[Len(list) + k + 1]

\* judge.compute_trace_match
compute_trace_match(executed_actions_, gold_actions) ==
    IF gold_actions = <<>> \/ executed_actions_ = <<>> THEN Ratio(0, 1)
    ELSE LET gold_by_step == GoldByStep(gold_actions, 1, <<>>)
             total_gold == Cardinality(DOMAIN gold_by_step)
             \* the steps that are not skipped at line 199
             reached == {k \in DOMAIN gold_by_step : k < Len(executed_actions_)}
             same_type == {k \in reached :
                              /\ IndexInRange(executed_actions_, k)
                              /\ Get(PyIndex(executed_actions_, k), "type", None)
                                   = Get(gold_by_step[k], "type", None)}
             raises ==
                 \/ \E k \in reached : ~IndexInRange(executed_actions_, k)
                 \/ \E k \in same_type :
                        actions_roughly_match(PyIndex(executed_actions_, k), gold_by_step[k])
                            = "raise"
             matches == Cardinality({k \in same_type :
                            actions_roughly_match(PyIndex(executed_actions_, k), gold_by_step[k])
                                = "match"})
         IN  IF raises THEN TraceRaised
             ELSE IF total_gold = 0 THEN Ratio(0, 1)
             ELSE Ratio(matches, total_gold)

\* actions without a step field
TraceActions ==
    { [type |-> "click", selector |-> Text(<<"#", "a">>)],
      [type |-> "click", selector |-> Text(<<"#", " ", "a">>)],
      [type |-> "click", selector |-> Text(<<"#", "b">>)],
      [type |-> "click", selector |-> NonText],
      [type |-> "click"],
      [type |-> "scroll", delta_y |-> 0],
      [type |-> "scroll", delta_y |-> 150] }

GoldSteps == {0, 1, 0 - 1, 0 - (MaxTrace + 1)}
WithStep(a, st) == [k \in DOMAIN a \cup {"step"} |-> IF k = "step" THEN st ELSE a[k]]
GoldActions == TraceActions \cup {WithStep(a, st) : a \in TraceActions, st \in GoldSteps}

ListsOf(S) == UNION {[1..n -> S] : n \in 0..MaxTrace}

InitTrace ==
    /\ InitCtl /\ InitRun
    /\ call \in {[fn |-> "compute_trace_match", executed_actions |-> e, gold_actions |-> g] :
                    e \in ListsOf(TraceActions), g \in ListsOf(GoldActions)}
              \cup {[fn |-> "compute_trace_match", executed_actions |-> g, gold_actions |-> g] :
                    g \in ListsOf(GoldActions)}
    /\ ret = NoRet

ComputeTraceMatch ==
    /\ call.fn = "compute_trace_match"
    /\ ret = NoRet
    /\ ret' = [fn |-> "compute_trace_match",
               value |-> compute_trace_match(call.executed_actions, call.gold_actions)]
    /\ UNCHANGED <<ctl_vars, run_vars, call, init_vars>>

SpecTrace == InitTrace /\ [][ComputeTraceMatch]_vars

\* C13: compute_trace_match returns 0.0 whenever executed or gold is empty,
\* and for every input it returns a value r with 0.0 <= r <= 1.0 (it is a
\* function of its two arguments, so repeated calls agree).
C13_TraceRatioInRange ==
    ret.fn = "compute_trace_match" =>
        /\ ~ret.value.raised
        /\ 0 <= ret.value.num /\ ret.value.num <= ret.value.den /\ ret.value.den > 0
        /\ (call.executed_actions = <<>> \/ call.gold_actions = <<>>) => ret.value.num = 0

\* Whenever compute_trace_match returns, the value is 0.0 for an empty list
\* and within [0, 1].
TraceRatioInRangeWhenReturned ==
    (ret.fn = "compute_trace_match" /\ ~ret.value.raised) =>
        /\ 0 <= ret.value.num /\ ret.value.num <= ret.value.den /\ ret.value.den > 0
        /\ (call.executed_actions = <<>> \/ call.gold_actions = <<>>) => ret.value.num = 0

\* C14: for every non-empty gold list, with or without step fields,
\* compute_trace_match(gold, gold) is 1.0.
C14_IdenticalTraceScoresOne ==
    (ret.fn = "compute_trace_match"
        /\ call.gold_actions # <<>>
        /\ call.executed_actions = call.gold_actions)
      => (~ret.value.raised /\ ret.value.num = ret.value.den)

(***************************************************************************)
(* ActionExecutor.execute_action as a function of the action (a dictionary, *)
(* as its signature declares) and of how the page operation ends.          *)
(***************************************************************************)
ExecuteInputs == ValidateInputs \ {NotADict}

InitExecute ==
    /\ InitCtl /\ InitRun
    /\ call \in {[fn |-> "execute_action", action |-> a, page_outcome |-> o] :
                    a \in ExecuteInputs, o \in PageOutcomes}
    /\ ret = NoRet

\* action.get("type") at line 28 is outside the try block
ExecuteRaises(action) == ~IsDict(action)

ExecuteAction ==
    /\ call.fn = "execute_action"
    /\ ret = NoRet
    /\ ret' = IF ExecuteRaises(call.action)
              THEN [fn |-> "execute_action", raised |-> TRUE]
              ELSE [fn |-> "execute_action", raised |-> FALSE,
                    result |-> execute_action(call.action, call.page_outcome)]
    /\ UNCHANGED <<ctl_vars, run_vars, call, init_vars>>

SpecExecute == InitExecute /\ [][ExecuteAction]_vars

\* the action performs an operation that the outcome of the page decides
PerformsOperation(a) ==
    /\ "type" \in DOMAIN a
    /\ a.type \in {"click", "type", "select", "scroll"}

\* C15: execute_action never raises; when the page operation of an action
\* fails (by timeout or by any other exception) the result has success false
\* and an error text; in every result success is true exactly when error is
\* null.
C15_ExecutorReportsInline ==
    ret.fn = "execute_action" =>
        /\ ~ret.raised
        /\ (PerformsOperation(call.action) /\ call.page_outcome # "ok")
              => (ret.result.success = FALSE /\ ret.result.error # NoReason)
        /\ ret.result.success = (ret.result.error = NoReason)

C15_Witness ==
    /\ ret.fn = "execute_action"
    /\ call.action = [type |-> "click", selector |-> "#x"]
    /\ call.page_outcome = "timeout"
    /\ ~ret.raised
    /\ ret.result = [success |-> FALSE, error |-> [msg |-> "Timeout executing"]]

(***************************************************************************)
(* The total run timeout.  run_evaluation records start_time and copies    *)
(* limits.timeout_s into the task; the clock passes the deadline at any    *)
(* moment before the step loop has ended.                                  *)
(***************************************************************************)
RunTimeBudgetExpires ==
    /\ InRun
    /\ pc \in {"create_context", "navigate", "loop", "call", "handle"}
    /\ ~timed_out
    /\ timed_out' = TRUE
    /\ UNCHANGED <<ctl_vars, handler, pc, max_steps, white_agents, context, page, loop_vars,
                   result, outcome, artifact_vars, pure_vars, init_vars>>

NextTimed == Next \/ RunTimeBudgetExpires

SpecTimed == Init /\ [][NextTimed]_vars

\* C16: a run of run_evaluation whose total run timeout passed before its
\* step loop ended is aborted: it ends with an error response, never with a
\* judged result.
C16_RunTimeoutAborts ==
    (InRun /\ pc = "done" /\ timed_out) => ~Judged(outcome)

\* C17: a run whose limits are not strictly positive (max_steps <= 0) is
\* rejected before any browser context is created: a request that holds a
\* context has max_steps > 0.
C17_InvalidSpecRejected ==
    (InRun /\ context # 0) => max_steps > 0

\* the number of iterations the while loop began: each begins with one observation
LoopSteps == observations

\* C20: every loop step of run_evaluation appends exactly one EventRecord:
\* once the loop has exited, the number of events equals the number of steps
\* the loop went through, steps ended by an agent-call timeout or failure
\* included.
C20_OneEventPerStep ==
    AfterLoop => Len(events) = LoopSteps

(***************************************************************************)
(* Concurrent use of the controller: a reset request is served while a     *)
(* run_evaluation or execute_task request is suspended at an await.        *)
(***************************************************************************)
InFlight == pc \notin {"idle", "done"}

ResetDuringRun ==
    /\ InFlight
    /\ browser_manager # None
    /\ open_contexts' = open_contexts \ active_contexts
    /\ active_contexts' = {}
    /\ browser' = FALSE
    /\ browser_manager' = None
    /\ initialized' = FALSE
    /\ UNCHANGED <<run_vars, pure_vars, init_vars>>

NextConcurrent == Next \/ ResetDuringRun

SpecConcurrent == Init /\ [][NextConcurrent]_vars

\* C19: a context created for a request stays open until that request's own
\* cleanup closes it, whatever else the controller serves meanwhile, and the
\* request's own cleanup does not fail.
C19_ContextOwnedByRun ==
    /\ (InFlight /\ context # 0) => context \in open_contexts
    /\ outcome # Raised("cleanup")

(***************************************************************************)
(* judge.validate_task_spec as a function of the task specification.       *)
(***************************************************************************)
\* judge.validate_task_spec
validate_task_spec(task_spec) ==
    IF task_spec.id = <<>> \/ task_spec.start_url = <<>> \/ task_spec.instruction = <<>>
    THEN FALSE
    ELSE IF task_spec.expected # PyNone
                /\ (task_spec.expected.css = <<>> \/ task_spec.expected.regex = <<>>)
    THEN FALSE
    ELSE IF task_spec.expected # PyNone /\ ~RegexValid(task_spec.expected.regex)
    THEN FALSE
    ELSE IF task_spec.expected = PyNone
                /\ Truthy(task_spec.success_criteria)
                /\ {"url_contains", "text_present", "selector_present"}
                       \cap DOMAIN task_spec.success_criteria = {}
    THEN FALSE
    ELSE IF task_spec.limits.max_steps <= 0 \/ task_spec.limits.timeout_sec <= 0
    THEN FALSE
    ELSE TRUE

RequiredTexts == { <<>>, <<"a">> }
TaskExpectedValues ==
    {PyNone} \cup {[css |-> c, regex |-> r] : c \in { <<>>, <<"#", "a">> },
                                             r \in { <<>>, <<"p">>, <<"(">> }}
TaskCriteriaValues ==
    { PyNone,
      [k \in {} |-> <<>>],
      [note |-> <<"n">>],
      [url_contains |-> <<"a">>],
      [selector_present |-> <<"#", "a">>, note |-> <<"n">>] }
LimitValues == {0 - 1, 0, 1}

TaskSpecs ==
    {[id |-> i, start_url |-> u, instruction |-> n, expected |-> e, success_criteria |-> c,
      limits |-> [max_steps |-> ms, timeout_sec |-> ts]] :
        i \in RequiredTexts, u \in RequiredTexts, n \in RequiredTexts,
        e \in TaskExpectedValues, c \in TaskCriteriaValues, ms \in LimitValues, ts \in LimitValues}

InitValidateTask ==
    /\ InitCtl /\ InitRun
    /\ call \in {[fn |-> "validate_task_spec", task_spec |-> t] : t \in TaskSpecs}
    /\ ret = NoRet

ValidateTaskSpec ==
    /\ call.fn = "validate_task_spec"
    /\ ret = NoRet
    /\ ret' = [fn |-> "validate_task_spec", value |-> validate_task_spec(call.task_spec)]
    /\ UNCHANGED <<ctl_vars, run_vars, call, init_vars>>

SpecValidateTask == InitValidateTask /\ [][ValidateTaskSpec]_vars

\* the legacy pair validates: both parts are given and the regex compiles
LegacyValidates(t) ==
    /\ t.expected # PyNone
    /\ t.expected.css # <<>>
    /\ t.expected.regex # <<>>
    /\ RegexValid(t.expected.regex)

\* the success_criteria map validates: it carries a recognised key
CriteriaValidates(t) ==
    /\ t.success_criteria # PyNone
    /\ JudgeKeys \cap DOMAIN t.success_criteria # {}

\* C18: validate_task_spec returns true only if exactly one of the legacy
\* pair and the success_criteria map validates and max_steps and timeout_sec
\* are both strictly positive; a spec with neither an expected pair nor a
\* success_criteria map carrying a recognised key is rejected.
C18_ValidateTaskSpec ==
    ret.fn = "validate_task_spec" =>
        LET t == call.task_spec IN
        /\ ret.value = TRUE =>
              /\ LegacyValidates(t) # CriteriaValidates(t)
              /\ t.limits.max_steps > 0
              /\ t.limits.timeout_sec > 0
        /\ (t.expected = PyNone /\ ~CriteriaValidates(t)) => ret.value = FALSE

\* What validate_task_spec does guarantee when it returns true.
ValidateTaskSpecGuarantees ==
    (ret.fn = "validate_task_spec" /\ ret.value = TRUE) =>
        LET t == call.task_spec IN
        /\ t.limits.max_steps > 0 /\ t.limits.timeout_sec > 0
        /\ t.expected # PyNone => LegacyValidates(t)
        /\ (t.expected = PyNone /\ Truthy(t.success_criteria)) => CriteriaValidates(t)

\* the run ended with the error response of the handler at line 421
FailedAfterStart(r) == r.kind = "response" /\ r.error = "Evaluation failed"

\* C21: when a run fails fatally after its loop recorded events, the events
\* recorded so far and the run's log lines are in the run's artifacts, and
\* the response still carries the original error whether or not the error
\* log could be written.
C21_PartialArtifactsKept ==
    (InRun /\ pc = "done" /\ FailedAfterStart(outcome) /\ Len(events) >= 1)
      => /\ saved_events = Saved(events)
         /\ saved_log = "log_lines"
         /\ outcome.error = "Evaluation failed"

(***************************************************************************)
(* judge._check_domain_match as a function of the two URLs, over URLs      *)
(* http://<host>[:8000]/.                                                  *)
(***************************************************************************)
Port8000 == <<":", "8", "0", "0", "0">>
UrlHosts == {Localhost, Loopback, <<"a">>, <<"b">>, Localhost \o <<".", "a">>}
UrlPorts == {<<>>, Port8000}
Url(host, port) == <<"h", ":">> \o SlashSlash \o host \o port \o <<"/">>
DomainUrls == {Url(h, p) : h \in UrlHosts, p \in UrlPorts}

InitDomain ==
    /\ InitCtl /\ InitRun
    /\ call \in {[fn |-> "check_domain_match", start_url |-> s, final_url |-> f] :
                    s \in DomainUrls, f \in DomainUrls}
    /\ ret = NoRet

CheckDomainMatch ==
    /\ call.fn = "check_domain_match"
    /\ ret = NoRet
    /\ ret' = [fn |-> "check_domain_match",
               value |-> check_domain_match(call.start_url, call.final_url)]
    /\ UNCHANGED <<ctl_vars, run_vars, call, init_vars>>

SpecDomain == InitDomain /\ [][CheckDomainMatch]_vars

\* the host of a network location: what precedes the port
HostOf(netloc) ==
    LET i == FirstIndex(netloc, ":") IN
    IF i = 0 THEN netloc ELSE SubSeq(netloc, 1, i - 1)

IsLocal(url) == HostOf(Netloc(url)) \in {Localhost, Loopback}

\* C22: a start URL on localhost:8000 and a final URL on 127.0.0.1:8000, and
\* the reverse, are the same domain; for a start URL whose host is neither
\* localhost nor 127.0.0.1 the result is true only when the two network
\* locations are equal.
C22_DomainMatch ==
    ret.fn = "check_domain_match" =>
        /\ (call.start_url = Url(Localhost, Port8000) /\ call.final_url = Url(Loopback, Port8000))
              => ret.value = TRUE
        /\ (call.start_url = Url(Loopback, Port8000) /\ call.final_url = Url(Localhost, Port8000))
              => ret.value = TRUE
        /\ (~IsLocal(call.start_url) /\ ret.value = TRUE)
              => Netloc(call.start_url) = Netloc(call.final_url)

\* What the code guarantees: equality of the network locations is required
\* when the start location does not contain "localhost" or "127.0.0.1"
\* anywhere.
DomainMatchBySubstring ==
    (ret.fn = "check_domain_match"
        /\ ~IsSubstring(Localhost, Netloc(call.start_url))
        /\ ~IsSubstring(Loopback, Netloc(call.start_url))
        /\ ret.value = TRUE)
      => Netloc(call.start_url) = Netloc(call.final_url)

\* an event recorded for an action that failed validation
ValidationErrorEvent(e) ==
    /\ "error" \in DOMAIN e.execution_result
    /\ e.execution_result.error.msg \in {"not_a_dict", "missing", "invalid_type"}

\* C23: every action that fails validation is counted and recorded alike, so
\* invalid_actions always equals the number of events recorded with a
\* validation error.
C23_InvalidActionsRecorded ==
    InRun => invalid_actions
                = Cardinality({i \in DOMAIN events : ValidationErrorEvent(events[i])})

\* For actions that are dictionaries the count and the events agree.
InvalidDictActionsRecorded ==
    InRun => Cardinality({i \in DOMAIN events : ValidationErrorEvent(events[i])})
                <= invalid_actions

\* the agent has answered with a stop action that carries no reason
StopWithoutReason ==
    /\ pc = "handle"
    /\ agent_result.kind = "ok"
    /\ agent_result.action = [type |-> "stop"]

\* C24: an action that omits a field the executor has a default for is applied
\* with that default when the agent returns it in a run; a stop without a
\* reason ends the loop with the reason "done".
C24_DefaultsApplied ==
    [][StopWithoutReason => (stopped' /\ stop_reason' = "done")]_vars

\* A stop without a reason is counted as an invalid action, and the loop goes on.
StopWithoutReasonIsInvalid ==
    [][StopWithoutReason => (invalid_actions' = invalid_actions + 1 /\ pc' = "loop")]_vars

\* C24 in the action validator: an action of a type with an executor default
\* is accepted without the defaulted field.
DefaultedFieldOptional ==
    (ret # NoRet /\ call.fn = "validate_action" /\ IsDict(call.action)
        /\ Get(call.action, "type", None) \in {"scroll", "wait", "stop"})
        => ret.ok

(***************************************************************************)
(* The step loop under fair scheduling: run_evaluation is one coroutine    *)
(* whose awaits are all bounded (the agent call by timeout=30, the page    *)
(* operations by Playwright's timeouts), so a step that is enabled is      *)
(* eventually taken.                                                       *)
(***************************************************************************)
LoopStep ==
    \/ RunObserve
    \/ RunLoopExit
    \/ RunCallAgent
    \/ HandleTimeout
    \/ HandleCallError
    \/ HandleInvalid
    \/ HandleStop
    \/ HandleExecute

SpecFair == Init /\ [][Next]_vars /\ WF_vars(LoopStep)

InLoop == InRun /\ pc \in {"loop", "call", "handle"}
LoopLeft == InRun /\ pc = "after_loop"

\* the iterations of the loop are numbered 1..max_steps
C25_IterationBound ==
    (InRun /\ observations > 0) => observations <= max_steps

\* the loop is left through a valid stop, the third timeout or the budget
C25_ExitCause ==
    LoopLeft
        => \/ /\ ValidStop(agent_result)
              /\ stopped /\ stop_reason = agent_result.action.reason
              /\ step_idx < max_steps
           \/ /\ timeouts = 3
              /\ stopped /\ stop_reason = "too_many_timeouts"
           \/ /\ step_idx >= max_steps
              /\ stop_reason \in {None, "max_steps_reached"}

\* a stop on any allowed step, the last one included, is recorded as a stop
\* with the reason the agent gave
C25_StopOnLastStep ==
    (pc = "handle" /\ ValidStop(agent_result))
        => /\ stopped' /\ stop_reason' = agent_result.action.reason
           /\ pc' = "after_loop"
           /\ Len(events') = Len(events) + 1
           /\ events'[Len(events')].step_idx = step_idx
           /\ events'[Len(events')].action = agent_result.action
           /\ events'[Len(events')].execution_result
                = [success |-> TRUE, stop_reason |-> agent_result.action.reason]

StopOnLastStepReached ==
    /\ LoopLeft
    /\ ValidStop(agent_result) /\ step_idx = max_steps - 1 /\ step_idx > 0
    /\ stop_reason = "finished"

\* the step that handles an agent call that failed other than by timeout
C26_CallErrorStep ==
    (pc = "handle" /\ agent_result.kind = "error")
        => /\ step_idx' = step_idx + 1
           /\ timeouts' = timeouts
           /\ invalid_actions' = invalid_actions
           /\ executor_calls' = executor_calls
           /\ executed_actions' = executed_actions
           /\ events' = events
           /\ pc' = "loop"
           /\ IF step_idx + 1 >= max_steps
              THEN stopped' /\ stop_reason' = "max_steps_reached" /\ ~LoopGuard'
              ELSE ~stopped' /\ stop_reason' = stop_reason /\ LoopGuard'

\* C26: an agent call that fails other than by timeout consumes one step:
\* step_idx advances, timeouts and invalid_actions are unchanged, nothing is
\* executed, and the loop continues unless the budget is exhausted, in which
\* case it stops with max_steps_reached.
C26_CallErrorConsumesStep ==
    [][C26_CallErrorStep]_vars

\* a failed call used the last step of the budget, after an earlier step
C26_Witness ==
    /\ InRun /\ pc = "after_loop"
    /\ agent_result.kind = "error"
    /\ step_idx = max_steps /\ step_idx >= 2
    /\ stopped /\ stop_reason = "max_steps_reached"
    /\ timeouts = 0 /\ invalid_actions = 0

\* a failed call after which the loop goes on
CallErrorLoopContinues ==
    /\ InRun /\ pc = "call"
    /\ agent_result.kind = "error"
    /\ step_idx = 1

\* the results the executor reports for a valid action that is not a stop
ExecutionSucceeded == [success |-> TRUE, error |-> NoReason]
ExecutionFailures ==
    { [success |-> FALSE, error |-> [msg |-> "Timeout executing"]],
      [success |-> FALSE, error |-> [msg |-> "Error executing"]] }

\* the step that executes a valid action that is not a stop
C27_ExecuteStep ==
    (pc = "handle" /\ agent_result.kind = "ok" /\ IsValid(agent_result.action)
        /\ agent_result.action.type # "stop")
        => /\ \E r \in {ExecutionSucceeded} \cup ExecutionFailures :
                events' = Append(events,
                    [step_idx |-> step_idx, action |-> agent_result.action,
                     execution_result |-> r])
           /\ executor_calls' = Append(executor_calls, agent_result.action)
           /\ step_idx' = step_idx + 1
           /\ timeouts' = timeouts
           /\ invalid_actions' = invalid_actions
           /\ stopped' = stopped /\ stop_reason' = stop_reason
           /\ pc' = "loop"
           /\ LoopGuard' = (step_idx + 1 < max_steps)

\* C27: the failing execution of a valid action that is not a stop is recorded
\* in that step's EventRecord (success false, with the error text); step_idx
\* advances, timeouts and invalid_actions are unchanged, and the loop
\* continues while budget remains.
C27_FailedExecutionRecorded ==
    [][C27_ExecuteStep]_vars

\* an execution failed at step 1 and the loop went on to the next agent call
C27_Witness ==
    /\ InRun /\ pc = "call"
    /\ step_idx = 2 /\ Len(events) = 2
    /\ events[2].step_idx = 1
    /\ events[2].execution_result \in ExecutionFailures
    /\ timeouts = 0 /\ invalid_actions = 0

\* the step_idx values of the recorded events are strictly increasing
EventsInStepOrder ==
    \A i, j \in DOMAIN events : i < j => events[i].step_idx < events[j].step_idx

\* within a run the list only grows at its end, by at most one event a step
EventsAppendOnly ==
    (InRun /\ pc # "done")
        => \/ events' = events
           \/ /\ Len(events') = Len(events) + 1
              /\ SubSeq(events', 1, Len(events)) = events

\* C28: the event list is append-only and in step order: the step_idx values
\* of the recorded events are strictly increasing, and an event once appended
\* is never changed or removed.
C28_EventsAppendOnly ==
    /\ [](InRun => EventsInStepOrder)
    /\ [][EventsAppendOnly]_vars

\* three events of one run, with a step in between that recorded none
C28_Witness ==
    /\ InRun /\ pc = "after_loop"
    /\ Len(events) = 3
    /\ events[1].step_idx = 0 /\ events[2].step_idx = 2 /\ events[3].step_idx = 3

\* the gold steps that the executed action at the same index, within
\* 0 .. len(executed) - 1, matches
CreditedAtSameIndex(executed_actions_, gold_actions) ==
    LET gold_by_step == GoldByStep(gold_actions, 1, <<>>) IN
    {k \in DOMAIN gold_by_step :
        /\ 0 <= k /\ k < Len(executed_actions_)
        /\ Get(executed_actions_[k + 1], "type", None) = Get(gold_by_step[k], "type", None)
        /\ actions_roughly_match(executed_actions_[k + 1], gold_by_step[k]) = "match"}

TraceReturned ==
    /\ ret.fn = "compute_trace_match"
    /\ ~ret.value.raised
    /\ call.executed_actions # <<>> /\ call.gold_actions # <<>>

\* C29: compute_trace_match credits a gold step only by the executed action at
\* that same index and only when 0 <= index < len(executed); a gold step whose
\* index is negative or at least len(executed) is never credited.
C29_CreditedOnlyAtSameIndex ==
    TraceReturned
        => ret.value.num
             = Cardinality(CreditedAtSameIndex(call.executed_actions, call.gold_actions))

\* When no gold step is negative, the credit is the one of C29.
NonNegativeStepsCreditedAtSameIndex ==
    (TraceReturned
        /\ \A k \in DOMAIN GoldByStep(call.gold_actions, 1, <<>>) : k >= 0)
        => ret.value.num
             = Cardinality(CreditedAtSameIndex(call.executed_actions, call.gold_actions))

\* one executed scroll compared with one gold scroll at index 0
ScrollAgainstScroll ==
    /\ TraceReturned
    /\ Len(call.executed_actions) = 1 /\ Len(call.gold_actions) = 1
    /\ call.executed_actions[1].type = "scroll"
    /\ call.gold_actions[1].type = "scroll"
    /\ Get(call.gold_actions[1], "step", 0) = 0

\* |a - b|
AbsDiff(a, b) == IF a >= b THEN a - b ELSE b - a

\* C30: an executed scroll is credited against a gold scroll at the same index
\* only if their delta_y values are within 100 px of each other.
C30_ScrollWithin100 ==
    (ScrollAgainstScroll /\ ret.value.num = 1)
        => AbsDiff(call.executed_actions[1].delta_y, call.gold_actions[1].delta_y) <= 100

\* Two scrolls without a selector are credited whatever their delta_y values.
ScrollsWithoutSelectorMatch ==
    ScrollAgainstScroll => ret.value.num = 1

(***************************************************************************)
(* The entries run_evaluation appends to executed_actions for actions that *)
(* failed validation (controller.py lines 292-295), given to               *)
(* compute_trace_match (line 386).                                         *)
(***************************************************************************)
\* lines 292-295: {"type": action.get("type", "unknown"), "error": validation_error}
InvalidActionEntry(action) ==
    [type |-> Get(action, "type", "unknown"), error |-> validate_action(action)[2]]

\* agent actions that are dictionaries and fail validation
RejectedActions ==
    { [k \in {} |-> ""],
      [type |-> "click"],
      [type |-> "scroll"],
      [type |-> "stop"],
      [type |-> "hover", selector |-> "#x"] }

InitInvalidTrace ==
    /\ InitCtl /\ InitRun
    /\ call \in {[fn |-> "invalid_trace", actions |-> a, gold_actions |-> g] :
                    a \in ListsOf(RejectedActions), g \in ListsOf(GoldActions)}
    /\ ret = NoRet

InvalidTraceMatch ==
    /\ call.fn = "invalid_trace"
    /\ ret = NoRet
    /\ LET executed == [i \in DOMAIN call.actions |-> InvalidActionEntry(call.actions[i])]
       IN  ret' = [fn |-> "invalid_trace",
                   executed_actions |-> executed,
                   value |-> compute_trace_match(executed, call.gold_actions)]
    /\ UNCHANGED <<ctl_vars, run_vars, call, init_vars>>

SpecInvalidTrace == InitInvalidTrace /\ [][InvalidTraceMatch]_vars

\* C31: an action that failed validation is never credited as a trace match:
\* a list of the entries recorded for invalid actions scores no match against
\* any gold list.
C31_InvalidNeverCredited ==
    (ret.fn = "invalid_trace" /\ ~ret.value.raised) => ret.value.num = 0

\* The entries of actions without a type or of a type no gold action has are
\* not credited.
UntypedInvalidNeverCredited ==
    (ret.fn = "invalid_trace" /\ ~ret.value.raised
        /\ \A i \in DOMAIN ret.executed_actions :
              ret.executed_actions[i].type \notin {"click", "scroll"})
        => ret.value.num = 0

\* a run that has returned a judged response
JudgedRun == InRun /\ pc = "done" /\ Judged(outcome)

\* C32: the stop step is not counted in steps_taken: a judged run that ends
\* with a valid stop action at step k reports steps_taken = k (a stop at step 0
\* reports 0, with one EventRecord), and a judged run that ends without a stop
\* reports the number of loop iterations performed.
C32_StopStepNotCounted ==
    JudgedRun
        => IF ValidStop(agent_result)
           THEN /\ outcome.steps_taken = events[Len(events)].step_idx
                /\ events[Len(events)].action.type = "stop"
                /\ outcome.steps_taken = observations - 1
                /\ (outcome.steps_taken = 0 => Len(events) = 1)
           ELSE outcome.steps_taken = observations

\* a judged run that stopped at step 2, after three iterations
C32_Witness ==
    /\ JudgedRun
    /\ ValidStop(agent_result)
    /\ outcome.steps_taken = 2 /\ observations = 3

\* a judged run without a stop that used its budget
JudgedWithoutStop ==
    /\ JudgedRun
    /\ ~stopped
    /\ outcome.steps_taken = 3 /\ observations = 3

\* the bounds of the loop's counters
CounterBounds ==
    /\ 0 <= timeouts /\ timeouts <= 3
    /\ 0 <= invalid_actions
    /\ timeouts + invalid_actions <= step_idx
    /\ step_idx <= max_steps

\* C33: at every point of the run_evaluation loop, 0 <= timeouts <= 3,
\* 0 <= invalid_actions, timeouts + invalid_actions <= step_idx and
\* step_idx <= max_steps.
C33_CounterBounds ==
    InLoop => CounterBounds

\* The bounds hold whenever max_steps is not negative.
CounterBoundsNonNegativeBudget ==
    (InLoop /\ max_steps >= 0) => CounterBounds

\* Each loop iteration that does not end with a stop increases step_idx by
\* exactly one: a step that returns to the loop head has advanced step_idx,
\* and no other step of the loop changes it.
IterationAdvancesStep ==
    [][InLoop =>
          /\ (pc \in {"loop", "handle"} /\ pc' = "loop") => step_idx' = step_idx + 1
          /\ (pc' # "loop" /\ InLoop') => step_idx' = step_idx
          /\ pc' = "after_loop" => step_idx' = step_idx]_vars

\* C34: at every point of the run_evaluation loop executed_actions and events
\* have the same length, at most step_idx + 1; steps that ended in a timeout
\* or an agent-call error contribute to neither list, so the index of an
\* entry in executed_actions can be smaller than the step_idx of its event.
C34_ListsInStep ==
    /\ [](InLoop => /\ Len(executed_actions) = Len(events)
                    /\ Len(events) <= step_idx + 1)
    /\ [][(pc = "handle" /\ agent_result.kind \in {"timeout", "error"})
              => (executed_actions' = executed_actions /\ events' = events)]_vars

\* an entry at index 0 of executed_actions whose event was recorded at step 1,
\* after a timeout at step 0
C34_Witness ==
    /\ InLoop
    /\ timeouts = 1 /\ invalid_actions = 0
    /\ Len(executed_actions) = 1 /\ Len(events) = 1
    /\ events[1].step_idx = 1
    /\ events[1].action = executed_actions[1]

\* the responses a run that has left its loop can be judged with, over the
\* final pages the browser may show
AttainableResponses ==
    {JudgedResponse(judge_final_success(load_task_from_run_request, final_html, final_url)) :
        final_html \in FinalHtmls, final_url \in FinalUrls}

\* C35: a run through run_evaluation is judged against the task's success
\* criteria and, with gold actions, scored by the trace matcher: some final
\* page makes the response report success (final_success = 1), and some run
\* reports a trace_match_ratio that is not null.  Stated on a run that has
\* left its loop and is about to be judged.
C35_RunCanSucceed ==
    LoopLeft
        => /\ \E r \in AttainableResponses : r.success /\ r.final_success = 1
           /\ \E r \in AttainableResponses : r.trace_match_ratio # None

\* No response of run_evaluation reports success or a trace match ratio.
NoRunSucceeds ==
    (InRun /\ outcome.kind = "response")
        => (~outcome.success /\ outcome.final_success = 0
            /\ outcome.trace_match_ratio = None)

\* the judged shape of a RunResponse
JudgedShape(r) ==
    /\ r.error = None
    /\ r.success = (r.final_success = 1)
    /\ r.final_success \in {0, 1}
    /\ r.steps_taken = step_idx
    /\ r.timeouts = timeouts
    /\ r.invalid_actions = invalid_actions

\* the error shape of a RunResponse
ErrorShape(r) ==
    /\ r.error # None
    /\ r.success = FALSE
    /\ r.final_success = 0
    /\ r.steps_taken = 0 /\ r.timeouts = 0 /\ r.invalid_actions = 0
    /\ r.trace_match_ratio = None

\* C36: every RunResponse returned by run_evaluation is a judged response
\* (error null, success = (final_success = 1), the loop's own steps_taken,
\* timeouts and invalid_actions) or an error response (error set, success
\* false, every counter 0 and no trace match ratio), even if steps had
\* already been taken before the failure.
C36_TwoResponseShapes ==
    (InRun /\ pc = "done" /\ outcome.kind = "response")
        => (JudgedShape(outcome) \/ ErrorShape(outcome))

\* an error response returned after two steps, a timeout among them
C36_Witness ==
    /\ InRun /\ pc = "done"
    /\ outcome.kind = "response" /\ outcome.error = "Evaluation failed"
    /\ step_idx = 2 /\ timeouts = 1
    /\ outcome.steps_taken = 0 /\ outcome.timeouts = 0

\* a judged response that reports the counters of its loop
JudgedShapeReached ==
    /\ InRun /\ pc = "done"
    /\ Judged(outcome)
    /\ outcome.steps_taken = 3 /\ outcome.timeouts = 1 /\ outcome.invalid_actions = 1

\* the state the controller is in once it has been initialized
Reinitialized ==
    /\ initialized
    /\ browser_manager # None
    /\ browser
    /\ active_contexts = {}

\* C38: when the /reset endpoint returns reset == true the controller has been
\* reinitialized: it is initialized, with a started BrowserManager and no
\* active context.
C38_ResetReinitializes ==
    [][Reset => Reinitialized']_vars

\* After a reset the controller is uninitialized and has no BrowserManager.
ResetLeavesUninitialized ==
    [][Reset => (~initialized' /\ browser_manager' = None /\ ~browser'
                 /\ active_contexts' = {})]_vars

(***************************************************************************)
(* TaskController.initialize called by several requests at once.  The      *)
(* coroutines interleave at the await of BrowserManager.start (line 36):   *)
(* the test of _initialized and the assignment of browser_manager run      *)
(* without a switch, and so do lines 37-38 once start has returned.        *)
(***************************************************************************)
ManagerNames == <<"Manager1", "Manager2", "Manager3", "Manager4", "Manager5">>
Managers == {ManagerNames[k] : k \in 1..MaxManagers}
\* the managers some caller is starting
InStart == {callers[c].manager : c \in {d \in Callers : callers[d].pc = "starting"}}
\* BrowserManager(): an object that no one has yet
FreshManagers == Managers \ (started \cup InStart \cup {browser_manager})

\* lines 34-36, up to the await: if not self._initialized, a new BrowserManager
InitializeEnter(c) ==
    /\ callers[c].pc = "idle"
    /\ IF initialized
       THEN /\ callers' = [callers EXCEPT ![c] = [pc |-> "done", manager |-> "None"]]
            /\ UNCHANGED browser_manager
       ELSE /\ FreshManagers # {}
            /\ LET m == CHOOSE n \in FreshManagers : TRUE
               IN  /\ browser_manager' = m
                   /\ callers' = [callers EXCEPT ![c] = [pc |-> "starting", manager |-> m]]
    /\ UNCHANGED <<initialized, browser, active_contexts, open_contexts, started,
                   run_vars, pure_vars>>

\* lines 36-38: start returns (or raises), ensure_runs_directory, _initialized = True
InitializeStart(c) ==
    /\ callers[c].pc = "starting"
    /\ \E o \in InitOutcomes :
        /\ started' = IF o = "start_fail" THEN started
                      ELSE started \cup {callers[c].manager}
        /\ initialized' = IF o = "ok" THEN TRUE ELSE initialized
        /\ callers' = [callers EXCEPT ![c] =
                          [pc |-> IF o = "ok" THEN "done" ELSE "raised", manager |-> "None"]]
        /\ browser' = (browser_manager \in started')
    /\ UNCHANGED <<browser_manager, active_contexts, open_contexts, run_vars, pure_vars>>

\* the request of caller c has ended
CallerReturn(c) ==
    /\ callers[c].pc \in {"done", "raised"}
    /\ callers' = [callers EXCEPT ![c] = NotCalling]
    /\ UNCHANGED <<ctl_vars, started, run_vars, pure_vars>>

\* TaskController.reset: the BrowserManager it refers to is stopped
ControllerReset ==
    /\ browser_manager # None
    /\ started' = started \ {browser_manager}
    /\ browser_manager' = None
    /\ browser' = FALSE
    /\ initialized' = FALSE
    /\ UNCHANGED <<active_contexts, open_contexts, callers, run_vars, pure_vars>>

NextInitialize ==
    \/ \E c \in Callers : InitializeEnter(c)
    \/ \E c \in Callers : InitializeStart(c)
    \/ \E c \in Callers : CallerReturn(c)
    \/ ControllerReset

SpecInitialize == Init /\ [][NextInitialize]_vars

\* C37: for one TaskController at most one BrowserManager (one browser
\* process) is started and live at a time, also when several calls arrive
\* while the controller is not initialized, and no started browser is left
\* unreferenced without being stopped.
C37_OneBrowser ==
    /\ Cardinality(started) <= 1
    /\ \A m \in started : m = browser_manager \/ m \in InStart
====
